---- MODULE Spec2Model ----
(***************************************************************************)
(* Evaluation / improvement loop of the document question-answering agent: *)
(* the eval runner and its append-only run log, the dimension analyzer,    *)
(* the judge trainer and the prompt improver.                              *)
(***************************************************************************)
EXTENDS Integers, Sequences, FiniteSets, TLC

\* ------------------------------------------------------------------------
\* Bounds
\* ------------------------------------------------------------------------
MaxPairs == 2
MaxResults == 3
MaxJudgeResults == 6
MaxImproveResults == 2
MaxApplies == 2
MaxRows == 2
MaxStoreCalls == 2
MaxRuns == 3
MaxTime == 4
MaxPieces == 4
MaxSends == 3
MaxExchanges == 2
MaxMined == 2
MaxSampledResults == 7
MaxQaRuns == 2
MaxEnds == 2

\* ------------------------------------------------------------------------
\* Values shared by all components
\* ------------------------------------------------------------------------
Undef == "undefined"
Null == "null"

\* a value that may be absent (null): <<>> or <<value>>
None == <<>>
Some(x) == <<x>>

DimensionNames == <<"questionType", "difficulty", "sourceFormat", "edgeCase">>
DimensionSet == {DimensionNames[n] : n \in 1..Len(DimensionNames)}

\* r.dimensions.<d>; a key missing from a parsed JSON object reads as undefined
Tag(dims, d) == IF d \in DOMAIN dims THEN dims[d] ELSE Undef

\* JavaScript number obtained by dividing two small integers, kept as a fraction
Ratio(p, t) == IF t > 0 THEN <<p, t>> ELSE <<0, 1>>
RatLess(a, b) == a[1] * b[2] < b[1] * a[2]
RatEq(a, b) == a[1] * b[2] = b[1] * a[2]

RECURSIVE CountPass(_)
CountPass(rs) ==
    IF rs = <<>> THEN 0
    ELSE (IF Head(rs).pass THEN 1 ELSE 0) + CountPass(Tail(rs))

RECURSIVE Filter(_, _)
Filter(rs, wantPass) ==
    IF rs = <<>> THEN <<>>
    ELSE IF Head(rs).pass = wantPass
         THEN <<Head(rs)>> \o Filter(Tail(rs), wantPass)
         ELSE Filter(Tail(rs), wantPass)

\* ------------------------------------------------------------------------
\* Benchmark store and corpus, as read by the eval runner
\* ------------------------------------------------------------------------
PairId(k) == "qa-00" \o ToString(k)

BenchDims(k) ==
    CASE k % 3 = 1 -> [questionType |-> "calculation", difficulty |-> "deep",
                       sourceFormat |-> "pdf", edgeCase |-> Undef]
      [] k % 3 = 2 -> [questionType |-> "factual", difficulty |-> "surface",
                       sourceFormat |-> "pdf", edgeCase |-> "not_answerable"]
      [] OTHER     -> [questionType |-> "", difficulty |-> "",
                       sourceFormat |-> "", edgeCase |-> Undef]

QAPair(k) ==
    [id |-> PairId(k), question |-> "q" \o ToString(k),
     expectedAnswer |-> "e" \o ToString(k), dimensions |-> BenchDims(k)]

Benchmark(n) == [k \in 1..n |-> QAPair(k)]

VersionName(v) == "v" \o ToString(v)

VARIABLES
    bmVersions,   \* benchmark store: bmVersions[v] is the pair list of version v
    corpusDocs,   \* number of ingested documents
    optVersion,   \* opts.version of runEval (Undef when absent)
    optLimit,     \* opts.limit of runEval: None when absent, else Some(n)
    pc,           \* position of runEval
    pairs,        \* runEval: the pairs to evaluate, after the limit
    i,            \* runEval: loop index, 1-based
    actual,       \* runEval: answer awaited from queryPair for pair i
    meta,         \* runEval: meta record
    results,      \* runEval: results array
    runLog,       \* lines of the run log file; <<>> while the file does not exist
    progress,     \* calls made to opts.onProgress, as <<done, total>>
    ret,          \* EvalRun returned by runEval: None until it returns
    err,          \* error thrown out of runEval, Null if none
    loaded        \* loadEvalRun: whether it was called and what it returned

VARIABLES
    manifest,     \* versions.json: latest and the list of version records
    latestFile,   \* content of qa-pairs.jsonl, None while the file does not exist
    csvFiles,     \* the reviewed CSV files on disk, by path
    storeCalls,   \* calls of importQAFromCSV and saveBenchmarkVersion so far
    imports,      \* the latest call of importQAFromCSV: path, error or result
    saved         \* saveBenchmarkVersion calls that returned: version and pairs given

VARIABLES
    runFiles,     \* the files of ~/.loop/eval/runs, in the order runEval created them
    now,          \* the clock that new Date() reads
    history       \* argument and value of a call of loadHistory that has just returned

historyVars == <<runFiles, now, history>>

VARIABLES
    response,     \* text the language model returned to the grader or the judge
    parsed        \* which parser was applied to it and what it returned, None before

verdictVars == <<response, parsed>>

VARIABLES
    disposed,     \* ChatSession._disposed
    piSession,    \* ChatSession.piSession exists
    turnCount,    \* ChatSession._turnCount
    turns,        \* ChatSession._turns
    sessionLog,   \* the lines SessionLogger appended to the session file
    sendCalls,    \* calls of send() so far
    sending,      \* the call of send() that waits at an await, None when there is none
    sent,         \* the call of send() that settled last: message and answer or error
    ended         \* what the last call of end() returned, None before

chatVars == <<disposed, piSession, turnCount, turns, sessionLog, sendCalls, sending, sent,
              ended>>

VARIABLES
    logsDir,      \* the session files of the chat logs directory, in sorted order
    draft,        \* content of qa-pairs-draft.jsonl, None while the file does not exist
    qaRuns,       \* the runs of generate-qa --from-chats so far: what each mined and wrote
    mined,        \* the MinedPair list a caller hands to minedToQAPairs
    converted     \* what that call of minedToQAPairs returned, None before

minerVars == <<logsDir, draft, qaRuns, mined, converted>>

toolVars == <<historyVars, verdictVars, chatVars, minerVars>>

storeVars == <<manifest, latestFile, csvFiles, storeCalls, imports, saved, toolVars>>

evalVars == <<storeVars, bmVersions, corpusDocs, optVersion, optLimit, pc, pairs, i, actual,
              meta, results, runLog, progress, ret, err, loaded>>

VARIABLES
    run,          \* results of the EvalRun handed to the analyzer, judge or improver
    apc,          \* position of analyzeByDimension
    analysis      \* DimensionAnalysis returned by analyzeByDimension, None before

analyzerVars == <<run, apc, analysis>>

VARIABLES
    calls,        \* external service calls made so far, in order
    jpc,          \* position of createJudge
    minExamples,  \* createJudge: its minExamples argument
    trainSet,     \* createJudge: train examples
    testSet,      \* createJudge: held-out examples
    judgePrompt,  \* createJudge: the synthesized judge prompt
    testDetails,  \* testJudge: details collected so far
    judgeFile,    \* content of judge.md, None while the file does not exist
    jret,         \* JudgeResult returned by createJudge, None until it returns
    jerr          \* error thrown out of createJudge, Null if none

judgeVars == <<jpc, minExamples, trainSet, testSet, judgePrompt, testDetails,
               judgeFile, jret, jerr>>

VARIABLES
    promptFile,       \* content of ~/.loop/system.md, None while the file does not exist
    persona,          \* persona of the configuration
    ipc,              \* position of suggestImprovement
    worstDim,         \* suggestImprovement: analysis.worst, None before it is located
    reflections,      \* suggestImprovement: text returned by reflect
    currentPrompt,    \* suggestImprovement: prompt read by getCurrentSystemPrompt
    proposedDelta,    \* suggestImprovement: text returned by curate
    tphase,           \* which testPairs call is running: "fail", "pass" or "none"
    tanswer,          \* testPairs: answer awaited from queryWithPrompt
    failTestResults,  \* results of testPairs on the failures
    passTestResults,  \* results of testPairs on the sample of passing results
    steps,            \* messages suggestImprovement has passed to onProgress
    iret,             \* Improvement returned by suggestImprovement, None until then
    ierr,             \* error thrown out of suggestImprovement, Null if none
    ledger,           \* lines of improvements.jsonl; <<>> while the file does not exist
    applies           \* calls of applyImprovement so far: outcome and system.md after it

improverVars == <<promptFile, persona, ipc, worstDim, reflections, currentPrompt,
                  proposedDelta, tphase, tanswer, failTestResults, passTestResults,
                  steps, iret, ierr, ledger, applies>>

vars == <<evalVars, analyzerVars, calls, judgeVars, improverVars>>

\* one external service call: which one, and the system prompt it was given
Call(name, arg) == [call |-> name, arg |-> arg]

\* ------------------------------------------------------------------------
\* Benchmark lookup
\* ------------------------------------------------------------------------
\* parseInt(version.replace("v", ""), 10), for the ids nextVersion produces
VersionNumber(version) ==
    CHOOSE n \in 1..(MaxStoreCalls + 2) : VersionName(n) = version

\* the path qa-pairs-{version}.jsonl exists: bmVersions[n] is the file of "v"+n
VersionFileExists(version) == VersionNumber(version) <= Len(bmVersions)

loadVersionedBenchmark_ReadsLatestFile(version) ==
    IF Len(manifest.versions) = 0 THEN None
    ELSE LET targetVersion == IF version = Undef THEN manifest.latest ELSE version
             found == {n \in 1..Len(manifest.versions) :
                          manifest.versions[n].version = targetVersion}
         IN IF found = {} THEN None
            ELSE IF latestFile = None THEN None
                 ELSE Some([version |-> targetVersion, pairs |-> latestFile[1]])
loadVersionedBenchmark(version) ==
    IF Len(manifest.versions) = 0 THEN None
    ELSE LET targetVersion == IF version = Undef THEN manifest.latest ELSE version
             found == {n \in 1..Len(manifest.versions) :
                          manifest.versions[n].version = targetVersion}
         IN IF found = {} THEN None
            ELSE IF ~VersionFileExists(targetVersion) THEN None
                 ELSE Some([version |-> targetVersion,
                            pairs |-> bmVersions[VersionNumber(targetVersion)]])

loadBenchmarkByName(version) == loadVersionedBenchmark(version)

\* if (opts?.limit && opts.limit < pairs.length) pairs = pairs.slice(0, opts.limit)
ApplyLimit(ps, limit) ==
    IF limit # None /\ limit[1] # 0 /\ limit[1] < Len(ps)
    THEN SubSeq(ps, 1, limit[1])
    ELSE ps

\* ------------------------------------------------------------------------
\* Outcomes of the external calls made for one pair
\* ------------------------------------------------------------------------
Answers == {" ans "}
Trim(s) == IF s = " ans " THEN "ans" ELSE s

GradeResults == {[pass |-> TRUE, reason |-> "matches"],
                 [pass |-> FALSE, reason |-> "wrong value"]}

AnswerError == "session timeout"
GradeError == "grader unavailable"
IoError == "ENOSPC"
CallbackError == "onProgress failed"

IoOutcomes == {"ok", "throw"}

\* ------------------------------------------------------------------------
\* Records of the run log
\* ------------------------------------------------------------------------
EntryDimensions(pair) == [d \in DimensionSet |-> Tag(pair.dimensions, d)]

TryEntry(pair, answer, grade) ==
    [id |-> pair.id, question |-> pair.question,
     expectedAnswer |-> pair.expectedAnswer, actualAnswer |-> Trim(answer),
     pass |-> grade.pass, reason |-> grade.reason,
     dimensions |-> EntryDimensions(pair)]

CatchEntry_KeepsVerdict(pair, message) ==
    [id |-> pair.id, question |-> pair.question,
     expectedAnswer |-> pair.expectedAnswer, actualAnswer |-> "",
     pass |-> TRUE, reason |-> message,
     dimensions |-> EntryDimensions(pair)]

CatchEntry(pair, message) ==
    [id |-> pair.id, question |-> pair.question,
     expectedAnswer |-> pair.expectedAnswer, actualAnswer |-> "",
     pass |-> FALSE, reason |-> "Error: " \o message,
     dimensions |-> EntryDimensions(pair)]

RunSummary(rs) ==
    [type |-> "summary", total |-> Len(rs), pass |-> CountPass(rs),
     fail |-> Len(rs) - CountPass(rs),
     accuracy |-> Ratio(CountPass(rs), Len(rs))]

\* appendFileSync(filepath, line + "\n")
appendToFile_Overwrites(lines, rec) == <<rec>>
appendToFile(lines, rec) == Append(lines, rec)

\* JSON.parse(JSON.stringify(entry)): keys holding undefined are not written
JsonEntry(e) ==
    [e EXCEPT !.dimensions =
        [d \in {x \in DimensionSet : e.dimensions[x] # Undef} |-> e.dimensions[d]]]

HasType(rec, t) == "type" \in DOMAIN rec /\ rec.type = t

IsResultLine(rec) ==
    /\ "id" \in DOMAIN rec /\ rec.id # ""
    /\ "question" \in DOMAIN rec /\ rec.question # ""

RECURSIVE LastOfType(_, _)
LastOfType(lines, t) ==
    IF lines = <<>> THEN None
    ELSE IF HasType(lines[Len(lines)], t) THEN Some(lines[Len(lines)])
         ELSE LastOfType(SubSeq(lines, 1, Len(lines) - 1), t)

RECURSIVE ResultLines(_)
ResultLines(lines) ==
    IF lines = <<>> THEN <<>>
    ELSE LET rec == Head(lines)
         IN IF ~HasType(rec, "meta") /\ ~HasType(rec, "summary") /\ IsResultLine(rec)
            THEN <<rec>> \o ResultLines(Tail(lines))
            ELSE ResultLines(Tail(lines))

parseRunFile(lines) ==
    LET m == LastOfType(lines, "meta")
        s == LastOfType(lines, "summary")
        rs == ResultLines(lines)
    IN IF m = None THEN None
       ELSE Some([meta |-> m[1], results |-> rs,
                  summary |-> IF s = None THEN RunSummary(rs) ELSE s[1]])

\* loadEvalRun(runId) on the log of this run
loadEvalRun == IF runLog = <<>> THEN None ELSE parseRunFile(runLog)

\* ------------------------------------------------------------------------
\* Components at rest
\* ------------------------------------------------------------------------
EmptyManifest == [latest |-> "", versions |-> <<>>]

HistoryIdle == runFiles = <<>> /\ now = 1 /\ history = None

VerdictIdle == response = "" /\ parsed = None

ChatIdle ==
    /\ disposed = FALSE /\ piSession = FALSE /\ turnCount = 0 /\ turns = <<>>
    /\ sessionLog = <<>> /\ sendCalls = 0 /\ sending = None /\ sent = None /\ ended = None

MinerIdle ==
    logsDir = <<>> /\ draft = None /\ qaRuns = <<>> /\ mined = <<>> /\ converted = None

ToolsIdle == HistoryIdle /\ VerdictIdle /\ ChatIdle /\ MinerIdle

StoreIdle ==
    /\ manifest = EmptyManifest /\ latestFile = None /\ csvFiles = <<>>
    /\ storeCalls = 0 /\ imports = None /\ saved = <<>>

RunnerIdle ==
    /\ StoreIdle
    /\ bmVersions = <<>> /\ corpusDocs = 0 /\ optVersion = Undef /\ optLimit = None
    /\ pc = "idle" /\ pairs = <<>> /\ i = 0 /\ actual = Null /\ meta = None
    /\ results = <<>> /\ runLog = <<>> /\ progress = <<>> /\ ret = None
    /\ err = Null /\ loaded = [called |-> FALSE, value |-> None]

EvalIdle == RunnerIdle /\ ToolsIdle

AnalyzerIdle == apc = "idle" /\ analysis = None

JudgeIdle ==
    /\ jpc = "idle" /\ minExamples = 0 /\ trainSet = <<>> /\ testSet = <<>>
    /\ judgePrompt = "" /\ testDetails = <<>> /\ judgeFile = None
    /\ jret = None /\ jerr = Null

ImproverIdle ==
    /\ promptFile = None /\ persona = "general" /\ ipc = "idle" /\ worstDim = None
    /\ reflections = "" /\ currentPrompt = "" /\ proposedDelta = ""
    /\ tphase = "none" /\ tanswer = Null
    /\ failTestResults = <<>> /\ passTestResults = <<>> /\ steps = <<>>
    /\ iret = None /\ ierr = Null
    /\ ledger = <<>> /\ applies = <<>>

\* ------------------------------------------------------------------------
\* System prompt
\* ------------------------------------------------------------------------
BASE_SYSTEM_PROMPT == "BASE PROMPT"
CustomPrompt == "CUSTOM PROMPT"

Personas == {"general", "finance"}

PERSONA_PROMPTS(p) == IF p = "general" THEN "" ELSE "\nPERSONA: Finance"

buildSystemPrompt(p) ==
    LET base == IF promptFile # None THEN promptFile[1] ELSE BASE_SYSTEM_PROMPT
    IN IF p \in {Undef, "general"} THEN base
       ELSE IF PERSONA_PROMPTS(p) # "" THEN base \o "\n" \o PERSONA_PROMPTS(p)
            ELSE base

resolvePersona == persona

\* createHash("sha256").update(text).digest("hex").slice(0, 12): equal texts
\* have equal hashes, different texts of the model different ones
PromptHash(text) == <<"sha256", text>>

\* the system prompt of the session queryPair creates:
\* createLoopSession(corpusDir, { fresh: true }), without a persona
QueryPairSystemPrompt == buildSystemPrompt(Undef)

\* ------------------------------------------------------------------------
\* runEval
\* ------------------------------------------------------------------------
Inputs == <<storeVars, bmVersions, corpusDocs, optVersion, optLimit, analyzerVars, calls, judgeVars,
            improverVars>>

\* if (docs.length === 0)
CorpusIsEmpty_Unchecked == FALSE
CorpusIsEmpty == corpusDocs = 0

RunEvalBenchmarkNotFound ==
    /\ pc = "start"
    /\ loadBenchmarkByName(optVersion) = None
    /\ pc' = "failed"
    /\ err' = "BenchmarkNotFound"
    /\ UNCHANGED <<Inputs, pairs, i, actual, meta, results, runLog, progress, ret, loaded>>

RunEvalEmptyCorpus ==
    /\ pc = "start"
    /\ loadBenchmarkByName(optVersion) # None
    /\ CorpusIsEmpty
    /\ pc' = "failed"
    /\ err' = "EmptyCorpus"
    /\ UNCHANGED <<Inputs, pairs, i, actual, meta, results, runLog, progress, ret, loaded>>

RunEvalWriteMeta ==
    /\ pc = "start"
    /\ loadBenchmarkByName(optVersion) # None
    /\ ~CorpusIsEmpty
    /\ LET benchmark == loadBenchmarkByName(optVersion)[1]
           ps == ApplyLimit(benchmark.pairs, optLimit)
           m == [type |-> "meta", benchmark |-> "custom",
                 version |-> benchmark.version,
                 systemPromptHash |-> PromptHash(buildSystemPrompt(resolvePersona)),
                 pairCount |-> Len(ps)]
       IN /\ pairs' = ps
          /\ meta' = Some(m)
          /\ \E io \in IoOutcomes :
                IF io = "throw"
                THEN /\ pc' = "aborted" /\ err' = IoError
                     /\ UNCHANGED <<runLog, i>>
                ELSE /\ runLog' = <<m>>
                     /\ i' = 1
                     /\ pc' = IF Len(ps) >= 1 THEN "answer" ELSE "summary"
                     /\ err' = Null
    /\ UNCHANGED <<Inputs, actual, results, progress, ret, loaded>>

\* end of one loop iteration
NextIteration(res, lg, pg) ==
    /\ results' = res /\ runLog' = lg /\ progress' = pg
    /\ i' = i + 1
    /\ pc' = IF i + 1 <= Len(pairs) THEN "answer" ELSE "summary"
    /\ actual' = Null
    /\ UNCHANGED <<Inputs, pairs, meta, ret, err, loaded>>

\* an exception leaves the catch block and so runEval
Propagate(res, lg, pg, message) ==
    /\ results' = res /\ runLog' = lg /\ progress' = pg
    /\ pc' = "aborted" /\ err' = message
    /\ actual' = Null
    /\ UNCHANGED <<Inputs, pairs, i, meta, ret, loaded>>

\* catch (err) { ... } of the loop body, entered with the arrays as the try block left them
CatchBlock(res, lg, pg, message) ==
    LET entry == CatchEntry(pairs[i], message)
        res2 == Append(res, entry)
        lg2 == appendToFile(lg, JsonEntry(entry))
        pg2 == Append(pg, <<i, Len(pairs)>>)
    IN \E io \in IoOutcomes :
          IF io = "throw" THEN Propagate(res2, lg, pg, IoError)
          ELSE \E cb \in IoOutcomes :
                  IF cb = "throw" THEN Propagate(res2, lg2, pg2, CallbackError)
                  ELSE NextIteration(res2, lg2, pg2)

\* results.push(entry); appendToFile(...); opts?.onProgress?.(...) inside the try block
TryTail(entry) ==
    LET res1 == Append(results, entry)
        lg1 == appendToFile(runLog, JsonEntry(entry))
        pg1 == Append(progress, <<i, Len(pairs)>>)
    IN \E io \in IoOutcomes :
          IF io = "throw" THEN CatchBlock(res1, runLog, progress, IoError)
          ELSE \E cb \in IoOutcomes :
                  IF cb = "throw" THEN CatchBlock(res1, lg1, pg1, CallbackError)
                  ELSE NextIteration(res1, lg1, pg1)

QueryPairReturns ==
    /\ pc = "answer"
    /\ \E a \in Answers : actual' = a
    /\ pc' = "grade"
    /\ UNCHANGED <<Inputs, pairs, i, meta, results, runLog, progress, ret, err, loaded>>

QueryPairThrows ==
    /\ pc = "answer"
    /\ CatchBlock(results, runLog, progress, AnswerError)

GradeAnswerReturns ==
    /\ pc = "grade"
    /\ \E g \in GradeResults : TryTail(TryEntry(pairs[i], actual, g))

GradeAnswerThrows ==
    /\ pc = "grade"
    /\ CatchBlock(results, runLog, progress, GradeError)

RunEvalSummary ==
    /\ pc = "summary"
    /\ LET summary == RunSummary(results)
       IN \E io \in IoOutcomes :
             IF io = "throw"
             THEN /\ pc' = "aborted" /\ err' = IoError
                  /\ UNCHANGED <<runLog, ret>>
             ELSE /\ runLog' = appendToFile(runLog, summary)
                  /\ ret' = Some([meta |-> meta[1], results |-> results,
                                   summary |-> summary])
                  /\ pc' = "done"
                  /\ UNCHANGED err
    /\ UNCHANGED <<Inputs, pairs, i, actual, meta, results, progress, loaded>>

\* the process is killed while runEval is between two statements
Kill ==
    /\ pc \in {"answer", "grade", "summary", "answerStalled", "gradeStalled"}
    /\ pc' = "killed"
    /\ UNCHANGED <<Inputs, pairs, i, actual, meta, results, runLog, progress, ret, err, loaded>>

\* loadEvalRun(runId), called once the process that ran runEval has ended
LoadEvalRun ==
    /\ pc \in {"done", "aborted", "killed", "failed"}
    /\ ~loaded.called
    /\ loaded' = [called |-> TRUE, value |-> loadEvalRun]
    /\ UNCHANGED <<Inputs, pc, pairs, i, actual, meta, results, runLog, progress, ret, err>>

\* the manifest of a store whose versions v1..vn were saved in this order
ManifestOf(files, docs) ==
    [latest |-> IF files = <<>> THEN "" ELSE VersionName(Len(files)),
     versions |-> [v \in 1..Len(files) |->
                      [version |-> VersionName(v), pairCount |-> Len(files[v]),
                       corpusDocCount |-> docs]]]

InitEval ==
    /\ bmVersions \in {<<>>} \cup {<<Benchmark(n)>> : n \in 0..MaxPairs}
    /\ manifest = ManifestOf(bmVersions, 1)
    /\ latestFile = IF bmVersions = <<>> THEN None ELSE Some(bmVersions[Len(bmVersions)])
    /\ csvFiles = <<>> /\ storeCalls = 0 /\ imports = None /\ saved = <<>>
    /\ ToolsIdle
    /\ corpusDocs \in {0, 1}
    /\ optVersion \in {Undef, "v1", "v2"}
    /\ optLimit \in {None} \cup {Some(n) : n \in 0..MaxPairs}
    /\ pc = "start"
    /\ pairs = <<>>
    /\ i = 0
    /\ actual = Null
    /\ meta = None
    /\ results = <<>>
    /\ runLog = <<>>
    /\ progress = <<>>
    /\ ret = None
    /\ err = Null
    /\ loaded = [called |-> FALSE, value |-> None]
    /\ run = <<>>
    /\ AnalyzerIdle
    /\ calls = <<>>
    /\ JudgeIdle
    /\ ImproverIdle

NextEval ==
    \/ RunEvalBenchmarkNotFound
    \/ RunEvalEmptyCorpus
    \/ RunEvalWriteMeta
    \/ QueryPairReturns
    \/ QueryPairThrows
    \/ GradeAnswerReturns
    \/ GradeAnswerThrows
    \/ RunEvalSummary
    \/ Kill
    \/ LoadEvalRun

SpecEval == InitEval /\ [][NextEval]_vars

\* runEval under every configured persona, with and without a custom prompt file
ImproverIdleBut(file, configured) ==
    /\ promptFile = file /\ persona = configured /\ ipc = "idle" /\ worstDim = None
    /\ reflections = "" /\ currentPrompt = "" /\ proposedDelta = ""
    /\ tphase = "none" /\ tanswer = Null
    /\ failTestResults = <<>> /\ passTestResults = <<>> /\ steps = <<>>
    /\ iret = None /\ ierr = Null
    /\ ledger = <<>> /\ applies = <<>>

InitEvalPrompt ==
    /\ bmVersions \in {<<>>} \cup {<<Benchmark(n)>> : n \in 0..MaxPairs}
    /\ manifest = ManifestOf(bmVersions, 1)
    /\ latestFile = IF bmVersions = <<>> THEN None ELSE Some(bmVersions[Len(bmVersions)])
    /\ csvFiles = <<>> /\ storeCalls = 0 /\ imports = None /\ saved = <<>>
    /\ ToolsIdle
    /\ corpusDocs \in {0, 1}
    /\ optVersion = Undef
    /\ optLimit = None
    /\ pc = "start" /\ pairs = <<>> /\ i = 0 /\ actual = Null /\ meta = None
    /\ results = <<>> /\ runLog = <<>> /\ progress = <<>> /\ ret = None /\ err = Null
    /\ loaded = [called |-> FALSE, value |-> None]
    /\ run = <<>>
    /\ AnalyzerIdle
    /\ calls = <<>>
    /\ JudgeIdle
    /\ \E file \in {None, Some(CustomPrompt)} : \E configured \in Personas :
          ImproverIdleBut(file, configured)

SpecEvalPrompt == InitEvalPrompt /\ [][NextEval]_vars

\* the promise of queryPair never settles: runEval stays at its await, which
\* no timer guards
QueryPairStalls ==
    /\ pc = "answer"
    /\ pc' = "answerStalled"
    /\ UNCHANGED <<Inputs, pairs, i, actual, meta, results, runLog, progress, ret, err, loaded>>

\* the promise of gradeAnswer never settles
GradeAnswerStalls ==
    /\ pc = "grade"
    /\ pc' = "gradeStalled"
    /\ UNCHANGED <<Inputs, pairs, i, actual, meta, results, runLog, progress, ret, err, loaded>>

NextEvalLive ==
    \/ RunEvalBenchmarkNotFound
    \/ RunEvalEmptyCorpus
    \/ RunEvalWriteMeta
    \/ QueryPairReturns
    \/ QueryPairThrows
    \/ QueryPairStalls
    \/ GradeAnswerReturns
    \/ GradeAnswerThrows
    \/ GradeAnswerStalls
    \/ RunEvalSummary
    \/ Kill
    \/ LoadEvalRun

\* runEval runs on the event loop: its synchronous steps are taken, and the
\* continuation of an await runs once the awaited promise settles; a call
\* that has not stalled settles
SpecEvalLive ==
    /\ InitEval
    /\ [][NextEvalLive]_vars
    /\ WF_vars(RunEvalBenchmarkNotFound \/ RunEvalEmptyCorpus \/ RunEvalWriteMeta)
    /\ WF_vars(QueryPairReturns \/ QueryPairThrows \/ QueryPairStalls)
    /\ WF_vars(GradeAnswerReturns \/ GradeAnswerThrows \/ GradeAnswerStalls)
    /\ WF_vars(RunEvalSummary)

\* ------------------------------------------------------------------------
\* Dimension analyzer
\* ------------------------------------------------------------------------
\* const key = keyFn(r) || "unknown"
SliceKey_NoFallback(r, d) == Tag(r.dimensions, d)
SliceKey(r, d) ==
    IF Tag(r.dimensions, d) \in {Undef, ""} THEN "unknown" ELSE Tag(r.dimensions, d)

\* keys of the groups Map, in insertion order
RECURSIVE GroupKeys(_, _, _)
GroupKeys(rs, d, seen) ==
    IF rs = <<>> THEN seen
    ELSE LET key == SliceKey(Head(rs), d)
         IN IF \E n \in 1..Len(seen) : seen[n] = key
            THEN GroupKeys(Tail(rs), d, seen)
            ELSE GroupKeys(Tail(rs), d, Append(seen, key))

\* groups.get(key), in result order
RECURSIVE GroupItems(_, _, _)
GroupItems(rs, d, key) ==
    IF rs = <<>> THEN <<>>
    ELSE IF SliceKey(Head(rs), d) = key
         THEN <<Head(rs)>> \o GroupItems(Tail(rs), d, key)
         ELSE GroupItems(Tail(rs), d, key)

FailureExample(r) ==
    [id |-> r.id, question |-> r.question, expectedAnswer |-> r.expectedAnswer,
     actualAnswer |-> r.actualAnswer, reason |-> r.reason]

MakeSlice(items) ==
    LET failed == Filter(items, FALSE)
    IN [total |-> Len(items), pass |-> CountPass(items),
        fail |-> Len(items) - CountPass(items),
        accuracy |-> Ratio(CountPass(items), Len(items)),
        failures |-> [n \in 1..Len(failed) |-> FailureExample(failed[n])]]

\* the Record returned by sliceBy, as its entries in key order
sliceBy(rs, d) ==
    LET keys == GroupKeys(rs, d, <<>>)
    IN [n \in 1..Len(keys) |->
           [value |-> keys[n], slice |-> MakeSlice(GroupItems(rs, d, keys[n]))]]

\* if (value === "unknown") continue; if (slice.total === 0) continue;
Skipped_PassingToo(value, slice) ==
    value = "unknown" \/ slice.total = 0 \/ slice.fail = 0
Skipped(value, slice) == value = "unknown" \/ slice.total = 0

\* the condition under which findWorst replaces its current worst
Replaces_NoTieBreak(worst, slice) ==
    \/ worst = None
    \/ RatLess(slice.accuracy, worst[1].accuracy)
Replaces(worst, slice) ==
    \/ worst = None
    \/ RatLess(slice.accuracy, worst[1].accuracy)
    \/ (RatEq(slice.accuracy, worst[1].accuracy) /\ slice.fail > Len(worst[1].failures))

\* the inner loop of findWorst over the slices of one dimension
RECURSIVE WorstOfSlices(_, _, _)
WorstOfSlices(dimension, entries, worst) ==
    IF entries = <<>> THEN worst
    ELSE LET e == Head(entries)
             next == IF ~Skipped(e.value, e.slice) /\ Replaces(worst, e.slice)
                     THEN Some([dimension |-> dimension, value |-> e.value,
                                accuracy |-> e.slice.accuracy, total |-> e.slice.total,
                                failures |-> e.slice.failures])
                     ELSE worst
         IN WorstOfSlices(dimension, Tail(entries), next)

\* the outer loop of findWorst over the dimensions, in declaration order
RECURSIVE WorstFrom(_, _, _)
WorstFrom(allDimensions, n, worst) ==
    IF n > Len(DimensionNames) THEN worst
    ELSE WorstFrom(allDimensions, n + 1,
                   WorstOfSlices(DimensionNames[n], allDimensions[DimensionNames[n]], worst))

findWorst(allDimensions) == WorstFrom(allDimensions, 1, None)

analyzeByDimension(rs) ==
    LET by == [d \in DimensionSet |-> sliceBy(rs, d)]
    IN [by |-> by,
        worst |-> findWorst(by),
        overall |-> [total |-> Len(rs), pass |-> CountPass(rs),
                     fail |-> Len(rs) - CountPass(rs),
                     accuracy |-> Ratio(CountPass(rs), Len(rs))]]

\* dimension tags of the results handed to the analyzer: as built by runEval
\* (every key, possibly undefined) and as parsed from a log (keys may be missing)
TagProfiles ==
    { [questionType |-> Undef, difficulty |-> Undef, sourceFormat |-> Undef,
       edgeCase |-> Undef],
      [d \in {} |-> ""],
      [questionType |-> "factual"],
      [questionType |-> "calculation", difficulty |-> "deep"],
      [questionType |-> "", difficulty |-> "surface", sourceFormat |-> "pdf"],
      [questionType |-> "factual", difficulty |-> "surface", sourceFormat |-> "pdf",
       edgeCase |-> "not_answerable"],
      [questionType |-> "calculation", difficulty |-> "surface", sourceFormat |-> "csv",
       edgeCase |-> Undef],
      [questionType |-> "unknown", sourceFormat |-> "csv"] }

ResultEntry(k, passed, dims) ==
    [id |-> PairId(k), question |-> "q" \o ToString(k),
     expectedAnswer |-> "e" \o ToString(k),
     actualAnswer |-> IF passed THEN "ans" ELSE "",
     pass |-> passed,
     reason |-> IF passed THEN "matches" ELSE "wrong value",
     dimensions |-> dims]

\* a run of n results: f[k] gives the verdict and the tags of result k
TaggedRun(n, f) == [k \in 1..n |-> ResultEntry(k, f[k][1], f[k][2])]

Analyze ==
    /\ apc = "start"
    /\ analysis' = Some(analyzeByDimension(run))
    /\ apc' = "done"
    /\ UNCHANGED <<evalVars, run, calls, judgeVars, improverVars>>

InitAnalyze ==
    /\ EvalIdle
    /\ \E n \in 0..MaxResults : \E f \in [1..n -> BOOLEAN \X TagProfiles] :
          run = TaggedRun(n, f)
    /\ apc = "start"
    /\ analysis = None
    /\ calls = <<>>
    /\ JudgeIdle
    /\ ImproverIdle

NextAnalyze == Analyze

SpecAnalyze == InitAnalyze /\ [][NextAnalyze]_vars

\* ------------------------------------------------------------------------
\* Judge trainer
\* ------------------------------------------------------------------------
Max(a, b) == IF a >= b THEN a ELSE b

\* Math.max(1, Math.floor(shuffled.length * 0.8))
SplitIndex(n) == Max(1, (n * 8) \div 10)

\* the orders in which [...results].sort(() => Math.random() - 0.5) can leave them
RECURSIVE Shuffles(_)
Shuffles(rs) ==
    IF rs = <<>> THEN {<<>>}
    ELSE UNION {{<<rs[k]>> \o rest :
                    rest \in Shuffles([n \in 1..(Len(rs) - 1) |->
                                          IF n < k THEN rs[n] ELSE rs[n + 1]])} :
                k \in 1..Len(rs)}

\* shuffled.slice(0, splitIdx) and shuffled.slice(splitIdx), then the move of the
\* last train item when the test set is empty
TestSlice_SkipsOne(shuffled, splitIdx) == SubSeq(shuffled, splitIdx + 2, Len(shuffled))
TestSlice(shuffled, splitIdx) == SubSeq(shuffled, splitIdx + 1, Len(shuffled))

SplitTrain(shuffled) ==
    LET train == SubSeq(shuffled, 1, SplitIndex(Len(shuffled)))
    IN IF TestSlice(shuffled, SplitIndex(Len(shuffled))) = <<>>
       THEN SubSeq(train, 1, Len(train) - 1)
       ELSE train

SplitTest(shuffled) ==
    LET train == SubSeq(shuffled, 1, SplitIndex(Len(shuffled)))
        test == TestSlice(shuffled, SplitIndex(Len(shuffled)))
    IN IF test = <<>> THEN <<train[Len(train)]>> ELSE test

JudgePromptTexts == {"judge prompt"}

\* verdicts parseJudgeVerdict can return for a judge response
JudgeVerdicts == {[pass |-> TRUE, reason |-> "good"], [pass |-> FALSE, reason |-> "bad"]}

LlmError == "llm unavailable"

JudgeTestDetail(example, verdict) ==
    [id |-> example.id, question |-> example.question, humanLabel |-> example.pass,
     judgeLabel |-> verdict.pass, judgeReason |-> verdict.reason,
     agree |-> (example.pass = verdict.pass)]

RECURSIVE CountAgree(_)
CountAgree(details) ==
    IF details = <<>> THEN 0
    ELSE (IF Head(details).agree THEN 1 ELSE 0) + CountAgree(Tail(details))

JudgeFrame == UNCHANGED <<evalVars, analyzerVars, minExamples, improverVars>>

CreateJudgeTooFew ==
    /\ jpc = "start"
    /\ Len(run) < minExamples
    /\ jpc' = "failed" /\ jerr' = "TooFewExamples"
    /\ UNCHANGED <<calls, trainSet, testSet, judgePrompt, testDetails, judgeFile, jret>>
    /\ JudgeFrame

CreateJudgeNoPass ==
    /\ jpc = "start"
    /\ Len(run) >= minExamples
    /\ Len(Filter(run, TRUE)) = 0
    /\ jpc' = "failed" /\ jerr' = "NoPassExamples"
    /\ UNCHANGED <<calls, trainSet, testSet, judgePrompt, testDetails, judgeFile, jret>>
    /\ JudgeFrame

CreateJudgeNoFail ==
    /\ jpc = "start"
    /\ Len(run) >= minExamples
    /\ Len(Filter(run, TRUE)) # 0
    /\ Len(Filter(run, FALSE)) = 0
    /\ jpc' = "failed" /\ jerr' = "NoFailExamples"
    /\ UNCHANGED <<calls, trainSet, testSet, judgePrompt, testDetails, judgeFile, jret>>
    /\ JudgeFrame

\* shuffle, split, and the call of generateJudgePrompt
CreateJudgeSplit ==
    /\ jpc = "start"
    /\ Len(run) >= minExamples
    /\ Len(Filter(run, TRUE)) # 0
    /\ Len(Filter(run, FALSE)) # 0
    /\ \E shuffled \in Shuffles(run) :
          /\ trainSet' = SplitTrain(shuffled)
          /\ testSet' = SplitTest(shuffled)
    /\ calls' = Append(calls, Call("generateJudgePrompt", ""))
    /\ jpc' = "generate"
    /\ UNCHANGED <<judgePrompt, testDetails, judgeFile, jret, jerr>>
    /\ JudgeFrame

\* steps 3 and 4 of createJudge, once testJudge has returned details
JudgeFinish(prompt, details) ==
    LET agreement == Ratio(CountAgree(details), Len(details))
    IN \E io \in IoOutcomes :
          IF io = "throw"
          THEN /\ jpc' = "aborted" /\ jerr' = IoError
               /\ UNCHANGED <<judgeFile, jret>>
          ELSE /\ judgeFile' = Some(prompt)
               /\ jret' = Some([judgePrompt |-> prompt, trainCount |-> Len(trainSet),
                                testCount |-> Len(testSet), agreement |-> agreement,
                                testDetails |-> details])
               /\ jpc' = "done"
               /\ UNCHANGED jerr

GenerateJudgePromptReturns ==
    /\ jpc = "generate"
    /\ \E text \in JudgePromptTexts :
          /\ judgePrompt' = text
          /\ IF testSet = <<>>
             THEN /\ JudgeFinish(text, <<>>)
                  /\ UNCHANGED calls
             ELSE /\ calls' = Append(calls, Call("runJudge", ""))
                  /\ jpc' = "test"
                  /\ UNCHANGED <<judgeFile, jret, jerr>>
    /\ UNCHANGED <<trainSet, testSet, testDetails>>
    /\ JudgeFrame

GenerateJudgePromptThrows ==
    /\ jpc = "generate"
    /\ jpc' = "aborted" /\ jerr' = LlmError
    /\ UNCHANGED <<calls, trainSet, testSet, judgePrompt, testDetails, judgeFile, jret>>
    /\ JudgeFrame

RunJudgeReturns ==
    /\ jpc = "test"
    /\ \E verdict \in JudgeVerdicts :
          LET details == Append(testDetails,
                                JudgeTestDetail(testSet[Len(testDetails) + 1], verdict))
          IN /\ testDetails' = details
             /\ IF Len(details) < Len(testSet)
                THEN /\ calls' = Append(calls, Call("runJudge", ""))
                     /\ UNCHANGED <<jpc, judgeFile, jret, jerr>>
                ELSE /\ JudgeFinish(judgePrompt, details)
                     /\ UNCHANGED calls
    /\ UNCHANGED <<trainSet, testSet, judgePrompt>>
    /\ JudgeFrame

RunJudgeThrows ==
    /\ jpc = "test"
    /\ jpc' = "aborted" /\ jerr' = LlmError
    /\ UNCHANGED <<calls, trainSet, testSet, judgePrompt, testDetails, judgeFile, jret>>
    /\ JudgeFrame

\* graded results handed to createJudge: k passing results followed by n - k
\* failing ones (the shuffle makes their order immaterial)
JudgeRun(n, k) == [m \in 1..n |-> ResultEntry(m, m <= k, BenchDims(m))]

MinExamplesChoices == {0, 4}

InitJudge ==
    /\ EvalIdle
    /\ AnalyzerIdle
    /\ run \in {JudgeRun(n, k) : n \in 0..MaxJudgeResults, k \in 0..MaxJudgeResults}
    /\ calls = <<>>
    /\ jpc = "start"
    /\ minExamples \in MinExamplesChoices
    /\ trainSet = <<>> /\ testSet = <<>> /\ judgePrompt = "" /\ testDetails = <<>>
    /\ judgeFile = None /\ jret = None /\ jerr = Null
    /\ ImproverIdle

NextJudge ==
    \/ CreateJudgeTooFew
    \/ CreateJudgeNoPass
    \/ CreateJudgeNoFail
    \/ CreateJudgeSplit
    \/ GenerateJudgePromptReturns
    \/ GenerateJudgePromptThrows
    \/ RunJudgeReturns
    \/ RunJudgeThrows

SpecJudge == InitJudge /\ [][NextJudge]_vars

\* ------------------------------------------------------------------------
\* Prompt improver
\* ------------------------------------------------------------------------
getCurrentSystemPrompt ==
    IF promptFile # None THEN promptFile[1] ELSE buildSystemPrompt(resolvePersona)

\* texts the language model can return to reflect and to curate
ReflectionTexts == {"- root cause"}
Deltas == {"## Calculations", "## A rewrite of the whole prompt, longer than it"}

\* currentPrompt + "\n\n" + proposedDelta
AugmentedPrompt_SingleNewline(current, delta) == current \o "\n" \o delta
AugmentedPrompt(current, delta) == current \o "\n\n" \o delta

Min(a, b) == IF a <= b THEN a ELSE b

PassSampleSize == 5

\* passes.slice(0, Math.min(5, passes.length)).map(...)
PassSample_Unbounded(rs) ==
    LET passes == Filter(rs, TRUE)
    IN [n \in 1..Len(passes) |-> FailureExample(passes[n])]
PassSample(rs) ==
    LET passes == Filter(rs, TRUE)
        sample == SubSeq(passes, 1, Min(PassSampleSize, Len(passes)))
    IN [n \in 1..Len(sample) |-> FailureExample(sample[n])]

TestResultOk(pair, answer, grade) ==
    [id |-> pair.id, question |-> pair.question,
     expectedAnswer |-> pair.expectedAnswer, actualAnswer |-> Trim(answer),
     pass |-> grade.pass, reason |-> grade.reason]

TestResultError(pair, message) ==
    [id |-> pair.id, question |-> pair.question,
     expectedAnswer |-> pair.expectedAnswer, actualAnswer |-> "",
     pass |-> FALSE, reason |-> "Error: " \o message]

Regressions(passResults) ==
    LET failed == Filter(passResults, FALSE)
    IN [n \in 1..Len(failed) |->
           [id |-> failed[n].id, question |-> failed[n].question,
            reason |-> failed[n].reason]]

Improvement(worst, failResults, passResults) ==
    LET failPassCount == CountPass(failResults)
    IN [targetDimension |-> worst.dimension, targetValue |-> worst.value,
        reflections |-> reflections, proposedDelta |-> proposedDelta,
        beforeAccuracy |-> worst.accuracy,
        afterAccuracy |-> Ratio(failPassCount, Len(worst.failures)),
        failuresBefore |-> Len(worst.failures),
        failuresAfter |-> Len(worst.failures) - failPassCount,
        regressions |-> Regressions(passResults),
        passTestResults |-> passResults, failTestResults |-> failResults]

\* suggestImprovement writes neither system.md nor improvements.jsonl
ImproverFrame_WritesPrompt ==
    /\ promptFile' = Some(BASE_SYSTEM_PROMPT \o "\n\n" \o proposedDelta)
    /\ UNCHANGED <<evalVars, analyzerVars, judgeVars, persona, ledger, applies>>
ImproverFrame ==
    UNCHANGED <<evalVars, analyzerVars, judgeVars, promptFile, persona, ledger, applies>>

\* Step 0: const allFailures = run.results.filter((r) => !r.pass)
HasNoFailures_UnlessAllFail(rs) == CountPass(rs) > 0
HasNoFailures(rs) == Len(Filter(rs, FALSE)) = 0

SuggestNoFailures_Reflects ==
    /\ ipc = "start"
    /\ HasNoFailures(run)
    /\ calls' = Append(calls, Call("reflect", ""))
    /\ ipc' = "reflect"
    /\ UNCHANGED <<worstDim, reflections, currentPrompt, proposedDelta, tphase,
                   tanswer, failTestResults, passTestResults, steps, iret, ierr>>
    /\ ImproverFrame

SuggestNoFailures ==
    /\ ipc = "start"
    /\ HasNoFailures(run)
    /\ ipc' = "failed" /\ ierr' = "NoFailures"
    /\ UNCHANGED <<calls, worstDim, reflections, currentPrompt, proposedDelta, tphase,
                   tanswer, failTestResults, passTestResults, steps, iret>>
    /\ ImproverFrame

SuggestNoWorst ==
    /\ ipc = "start"
    /\ ~HasNoFailures(run)
    /\ LET worst == analyzeByDimension(run).worst
       IN IF worst = None THEN TRUE ELSE Len(worst[1].failures) = 0
    /\ ipc' = "failed" /\ ierr' = "NoFailures"
    /\ UNCHANGED <<calls, worstDim, reflections, currentPrompt, proposedDelta, tphase,
                   tanswer, failTestResults, passTestResults, steps, iret>>
    /\ ImproverFrame

\* onProgress?.(step) throws: the exception leaves suggestImprovement
StepThrows ==
    /\ ipc' = "aborted" /\ ierr' = CallbackError
    /\ UNCHANGED <<calls, steps>>

\* the worst dimension is located and reflect(failures) is called
SuggestReflect ==
    /\ ipc = "start"
    /\ ~HasNoFailures(run)
    /\ LET worst == analyzeByDimension(run).worst
       IN /\ worst # None
          /\ Len(worst[1].failures) # 0
          /\ worstDim' = worst
    /\ \E cb \in IoOutcomes :
          IF cb = "throw" THEN StepThrows
          ELSE /\ steps' = steps \o <<"Worst dimension", "Reflecting on failures...">>
               /\ calls' = Append(calls, Call("reflect", ""))
               /\ ipc' = "reflect"
               /\ UNCHANGED ierr
    /\ UNCHANGED <<reflections, currentPrompt, proposedDelta, tphase, tanswer,
                   failTestResults, passTestResults, iret>>
    /\ ImproverFrame

\* reflect returns; the current prompt is read and curate is called
ReflectReturns ==
    /\ ipc = "reflect"
    /\ \E text \in ReflectionTexts : reflections' = text
    /\ \E cb \in IoOutcomes :
          IF cb = "throw" THEN StepThrows /\ UNCHANGED currentPrompt
          ELSE /\ steps' = Append(steps, "Proposing system prompt improvement...")
               /\ currentPrompt' = getCurrentSystemPrompt
               /\ calls' = Append(calls, Call("curate", getCurrentSystemPrompt))
               /\ ipc' = "curate"
               /\ UNCHANGED ierr
    /\ UNCHANGED <<worstDim, proposedDelta, tphase, tanswer, failTestResults,
                   passTestResults, iret>>
    /\ ImproverFrame

ReflectThrows ==
    /\ ipc = "reflect"
    /\ ipc' = "aborted" /\ ierr' = LlmError
    /\ UNCHANGED <<calls, worstDim, reflections, currentPrompt, proposedDelta, tphase,
                   tanswer, failTestResults, passTestResults, steps, iret>>
    /\ ImproverFrame

\* curate returns; testPairs(failures, newPrompt) asks its first question
CurateReturns ==
    /\ ipc = "curate"
    /\ \E delta \in Deltas :
          /\ proposedDelta' = delta
          /\ \E cb \in IoOutcomes :
                IF cb = "throw" THEN StepThrows /\ UNCHANGED tphase
                ELSE /\ steps' = Append(steps, "Testing on failed queries...")
                     /\ calls' = Append(calls, Call("queryWithPrompt",
                                                    AugmentedPrompt(currentPrompt, delta)))
                     /\ tphase' = "fail"
                     /\ ipc' = "testAnswer"
                     /\ UNCHANGED ierr
    /\ UNCHANGED <<worstDim, reflections, currentPrompt, tanswer, failTestResults,
                   passTestResults, iret>>
    /\ ImproverFrame

CurateThrows ==
    /\ ipc = "curate"
    /\ ipc' = "aborted" /\ ierr' = LlmError
    /\ UNCHANGED <<calls, worstDim, reflections, currentPrompt, proposedDelta, tphase,
                   tanswer, failTestResults, passTestResults, steps, iret>>
    /\ ImproverFrame

\* the pairs of the testPairs call in progress, and the results it has so far
TestedPairs == IF tphase = "fail" THEN worstDim[1].failures ELSE PassSample(run)
TestedSoFar == IF tphase = "fail" THEN failTestResults ELSE passTestResults

\* one pair of testPairs is settled with the result r
TestPairSettled(r) ==
    LET res == Append(TestedSoFar, r)
        failResults == IF tphase = "fail" THEN res ELSE failTestResults
        passResults == IF tphase = "pass" THEN res ELSE passTestResults
        newPrompt == AugmentedPrompt(currentPrompt, proposedDelta)
        finished == /\ iret' = Some(Improvement(worstDim[1], failResults, passResults))
                    /\ ipc' = "done"
                    /\ UNCHANGED <<calls, ierr>>
    IN /\ failTestResults' = failResults
       /\ passTestResults' = passResults
       /\ tanswer' = Null
       /\ IF Len(res) < Len(TestedPairs)
          THEN /\ calls' = Append(calls, Call("queryWithPrompt", newPrompt))
               /\ ipc' = "testAnswer"
               /\ UNCHANGED <<tphase, steps, iret, ierr>>
          ELSE IF tphase = "fail"
               THEN \E cb \in IoOutcomes :
                       IF cb = "throw" THEN StepThrows /\ UNCHANGED <<tphase, iret>>
                       ELSE /\ steps' = Append(steps, "Checking for regressions...")
                            /\ IF PassSample(run) # <<>>
                               THEN /\ calls' = Append(calls,
                                                       Call("queryWithPrompt", newPrompt))
                                    /\ ipc' = "testAnswer"
                                    /\ tphase' = "pass"
                                    /\ UNCHANGED <<iret, ierr>>
                               ELSE finished /\ UNCHANGED tphase
               ELSE finished /\ UNCHANGED <<tphase, steps>>
       /\ UNCHANGED <<worstDim, reflections, currentPrompt, proposedDelta>>
       /\ ImproverFrame

QueryWithPromptReturns ==
    /\ ipc = "testAnswer"
    /\ \E a \in Answers : tanswer' = a
    /\ calls' = Append(calls, Call("gradeAnswer", ""))
    /\ ipc' = "testGrade"
    /\ UNCHANGED <<worstDim, reflections, currentPrompt, proposedDelta, tphase,
                   failTestResults, passTestResults, steps, iret, ierr>>
    /\ ImproverFrame

QueryWithPromptThrows ==
    /\ ipc = "testAnswer"
    /\ TestPairSettled(TestResultError(TestedPairs[Len(TestedSoFar) + 1], AnswerError))

TestGradeReturns ==
    /\ ipc = "testGrade"
    /\ \E g \in GradeResults :
          TestPairSettled(TestResultOk(TestedPairs[Len(TestedSoFar) + 1], tanswer, g))

TestGradeThrows ==
    /\ ipc = "testGrade"
    /\ TestPairSettled(TestResultError(TestedPairs[Len(TestedSoFar) + 1], GradeError))

\* dimension tags of the results of a run loaded from its log
ImproverProfiles ==
    { [d \in {} |-> ""],
      [questionType |-> "factual"],
      [questionType |-> "calculation", difficulty |-> "deep"] }

InitImprove ==
    /\ EvalIdle
    /\ AnalyzerIdle
    /\ JudgeIdle
    /\ \E n \in 0..MaxImproveResults : \E f \in [1..n -> BOOLEAN \X ImproverProfiles] :
          run = TaggedRun(n, f)
    /\ calls = <<>>
    /\ promptFile \in {None, Some(CustomPrompt)}
    /\ persona \in Personas
    /\ ipc = "start"
    /\ worstDim = None /\ reflections = "" /\ currentPrompt = "" /\ proposedDelta = ""
    /\ tphase = "none" /\ tanswer = Null
    /\ failTestResults = <<>> /\ passTestResults = <<>> /\ steps = <<>>
    /\ iret = None /\ ierr = Null
    /\ ledger = <<>> /\ applies = <<>>

\* the ImprovementLog written by applyImprovement; the timestamp is the
\* position of the call in time
ImprovementLogOf(improvement, runId, time) ==
    [timestamp |-> time, runId |-> runId,
     targetDimension |-> improvement.targetDimension,
     targetValue |-> improvement.targetValue,
     delta |-> improvement.proposedDelta,
     beforeAccuracy |-> improvement.beforeAccuracy,
     afterAccuracy |-> improvement.afterAccuracy,
     regressions |-> Len(improvement.regressions),
     applied |-> TRUE]

AppliedRunId == "custom-run"

\* appendFileSync(IMPROVEMENTS_PATH, JSON.stringify(log) + "\n")
appendFileSync_Truncates(lines, line) == <<line>>
appendFileSync(lines, line) == Append(lines, line)

\* applyImprovement(improvement, runId) with the Improvement suggestImprovement
\* returned: writeFileSync of system.md, then appendFileSync of the ledger line
ApplyImprovement ==
    /\ ipc = "done"
    /\ iret # None
    /\ Len(applies) < MaxApplies
    /\ LET improvement == iret[1]
           newPrompt == AugmentedPrompt(getCurrentSystemPrompt, improvement.proposedDelta)
           log == ImprovementLogOf(improvement, AppliedRunId, Len(applies) + 1)
       IN \E io \in IoOutcomes :
             IF io = "throw"
             THEN /\ applies' = Append(applies, [outcome |-> "throw", file |-> promptFile])
                  /\ UNCHANGED <<promptFile, ledger>>
             ELSE /\ promptFile' = Some(newPrompt)
                  /\ \E io2 \in IoOutcomes :
                        IF io2 = "throw"
                        THEN /\ applies' = Append(applies, [outcome |-> "throw",
                                                            file |-> Some(newPrompt)])
                             /\ UNCHANGED ledger
                        ELSE /\ ledger' = appendFileSync(ledger, log)
                             /\ applies' = Append(applies, [outcome |-> "ok",
                                                            file |-> Some(newPrompt)])
    /\ UNCHANGED <<evalVars, analyzerVars, calls, judgeVars, persona, ipc, worstDim,
                   reflections, currentPrompt, proposedDelta, tphase, tanswer,
                   failTestResults, passTestResults, steps, iret, ierr>>

\* loadImprovements(): the lines of the ledger, parsed, in file order
loadImprovements == [n \in 1..Len(ledger) |-> ledger[n]]

NextImprove ==
    \/ ApplyImprovement
    \/ SuggestNoFailures
    \/ SuggestNoWorst
    \/ SuggestReflect
    \/ ReflectReturns
    \/ ReflectThrows
    \/ CurateReturns
    \/ CurateThrows
    \/ QueryWithPromptReturns
    \/ QueryWithPromptThrows
    \/ TestGradeReturns
    \/ TestGradeThrows

SpecImprove == InitImprove /\ [][NextImprove]_vars

\* a run whose first result fails and whose other results pass
SampledRun(n) == TaggedRun(n, [k \in 1..n |-> <<k # 1, [questionType |-> "factual"]>>])

EditedPrompt == "EDITED PROMPT"

\* system.md is rewritten by its owner while suggestImprovement is at an await
EditPromptFile ==
    /\ ipc \in {"reflect", "curate", "testAnswer", "testGrade"}
    /\ promptFile # Some(EditedPrompt)
    /\ promptFile' = Some(EditedPrompt)
    /\ UNCHANGED <<evalVars, analyzerVars, calls, judgeVars, persona, ipc, worstDim,
                   reflections, currentPrompt, proposedDelta, tphase, tanswer,
                   failTestResults, passTestResults, steps, iret, ierr, ledger, applies>>

\* suggestImprovement on a run of a few results of any tags, or on a run
\* with more passing results than the regression check samples
InitSuggest ==
    /\ EvalIdle
    /\ AnalyzerIdle
    /\ JudgeIdle
    /\ \/ /\ \E n \in 0..MaxImproveResults :
                \E f \in [1..n -> BOOLEAN \X ImproverProfiles] : run = TaggedRun(n, f)
          /\ promptFile \in {None, Some(CustomPrompt)}
          /\ persona \in Personas
       \/ /\ \E n \in (MaxImproveResults + 1)..MaxSampledResults : run = SampledRun(n)
          /\ promptFile = None
          /\ persona = "general"
    /\ calls = <<>>
    /\ ipc = "start"
    /\ worstDim = None /\ reflections = "" /\ currentPrompt = "" /\ proposedDelta = ""
    /\ tphase = "none" /\ tanswer = Null
    /\ failTestResults = <<>> /\ passTestResults = <<>> /\ steps = <<>>
    /\ iret = None /\ ierr = Null
    /\ ledger = <<>> /\ applies = <<>>

NextSuggest ==
    \/ SuggestNoFailures
    \/ SuggestNoWorst
    \/ SuggestReflect
    \/ ReflectReturns
    \/ ReflectThrows
    \/ CurateReturns
    \/ CurateThrows
    \/ QueryWithPromptReturns
    \/ QueryWithPromptThrows
    \/ TestGradeReturns
    \/ TestGradeThrows
    \/ EditPromptFile

SpecSuggest == InitSuggest /\ [][NextSuggest]_vars

\* ------------------------------------------------------------------------
\* The three operations that have fatal preconditions, one of them running
\* ------------------------------------------------------------------------
InitLoop == InitEval \/ InitJudge \/ InitImprove

NextLoop == NextEval \/ NextJudge \/ NextImprove

SpecLoop == InitLoop /\ [][NextLoop]_vars

\* ------------------------------------------------------------------------
\* Benchmark store: importQAFromCSV and saveBenchmarkVersion
\* ------------------------------------------------------------------------
\* cell.trim() for the cell texts of the reviewed CSV
TrimCell(s) ==
    IF s = "  " THEN ""
    ELSE IF s = " Edit " THEN "Edit"
    ELSE IF s = " q2 " THEN "q2"
    ELSE s

\* text.toLowerCase() for the status texts
ToLowerCase(s) == IF s = "Edit" THEN "edit" ELSE s

\* row[col] ?? dflt
OrDefault(row, col, dflt) == IF col \in DOMAIN row THEN row[col] ELSE dflt

\* the rows Papa.parse returns: records keyed by the normalised header
CsvRowKinds ==
    { [id |-> "x9", question |-> "q1", expected_answer |-> "a1", source |-> "doc.pdf",
       edge_case |-> ""],
      [id |-> "qa-007", question |-> " q2 ", expected_answer |-> "a2",
       source |-> "doc.pdf", edge_case |-> "", status |-> " Edit ",
       question_type |-> "calculation"],
      [id |-> "qa-003", question |-> "", expected_answer |-> "", source |-> "",
       edge_case |-> "", status |-> "discard"],
      [id |-> "qa-004", question |-> "  ", expected_answer |-> "a4",
       source |-> "doc.pdf", edge_case |-> "", status |-> "keep"],
      [id |-> "", question |-> "q5", expected_answer |-> "", source |-> "doc.pdf",
       edge_case |-> "not_answerable", status |-> "keep"],
      [id |-> "qa-006", question |-> "q6", expected_answer |-> "", source |-> "doc.pdf",
       edge_case |-> "", status |-> "keep"],
      [id |-> "qa-001", question |-> "q7", expected_answer |-> "a7", source |-> "  ",
       edge_case |-> "", status |-> "reviewed"] }

\* const status = (row.status ?? "keep").trim().toLowerCase()
RowStatus(row) == ToLowerCase(TrimCell(OrDefault(row, "status", "keep")))

RowError_IgnoresSource(row) ==
    LET question == TrimCell(OrDefault(row, "question", ""))
        answer == TrimCell(OrDefault(row, "expected_answer", ""))
        edgeCase == TrimCell(OrDefault(row, "edge_case", ""))
    IN IF question = "" THEN Some("empty question")
       ELSE IF answer = "" /\ edgeCase # "not_answerable"
            THEN Some("empty expected_answer")
       ELSE None
\* the message pushed to errors for a row that is not discarded, None if valid
RowError(row) ==
    LET question == TrimCell(OrDefault(row, "question", ""))
        answer == TrimCell(OrDefault(row, "expected_answer", ""))
        source == TrimCell(OrDefault(row, "source", ""))
        edgeCase == TrimCell(OrDefault(row, "edge_case", ""))
    IN IF question = "" THEN Some("empty question")
       ELSE IF answer = "" /\ edgeCase # "not_answerable"
            THEN Some("empty expected_answer")
       ELSE IF source = "" THEN Some("empty source")
       ELSE None

\* the pair pushed to validPairs, n pairs having been pushed before
RowPair(row, n) ==
    LET answer == TrimCell(OrDefault(row, "expected_answer", ""))
        edgeCase == TrimCell(OrDefault(row, "edge_case", ""))
    IN [id |-> IF OrDefault(row, "id", "") # "" THEN row.id ELSE PairId(n + 1),
        question |-> TrimCell(OrDefault(row, "question", "")),
        expectedAnswer |-> IF answer # "" THEN answer ELSE "NOT_ANSWERABLE",
        dimensions |->
            [questionType |-> TrimCell(OrDefault(row, "question_type", "factual")),
             difficulty |-> TrimCell(OrDefault(row, "difficulty", "surface")),
             sourceFormat |-> TrimCell(OrDefault(row, "source_format", "pdf")),
             edgeCase |-> IF edgeCase # "" THEN edgeCase ELSE Undef]]

\* the loop of importQAFromCSV over the rows, from row k on
RECURSIVE Categorize(_, _, _)
Categorize(rows, k, acc) ==
    IF k > Len(rows) THEN acc
    ELSE LET row == rows[k]
             status == RowStatus(row)
         IN IF status = "discard"
            THEN Categorize(rows, k + 1, [acc EXCEPT !.discarded = @ + 1])
            ELSE IF RowError(row) # None
                 THEN Categorize(rows, k + 1,
                                 [acc EXCEPT !.errors = Append(@, <<k + 1, RowError(row)[1]>>)])
                 ELSE Categorize(rows, k + 1,
                         [acc EXCEPT !.edited = IF status = "edit" THEN @ + 1 ELSE @,
                                     !.kept = IF status = "edit" THEN @ ELSE @ + 1,
                                     !.validPairs =
                                         Append(@, RowPair(row, Len(acc.validPairs)))])

\* validPairs.forEach((p, i) => { p.id = `qa-${String(i + 1).padStart(3, "0")}` })
Resequence_KeepsIds(ps) == ps
Resequence(ps) == [k \in 1..Len(ps) |-> [ps[k] EXCEPT !.id = PairId(k)]]

\* pairs.map((p) => JSON.stringify(p)): keys holding undefined are not written
JsonPair(p) ==
    [p EXCEPT !.dimensions =
        [d \in {x \in DOMAIN p.dimensions : p.dimensions[x] # Undef} |-> p.dimensions[d]]]

JsonPairs(ps) == [k \in 1..Len(ps) |-> JsonPair(ps[k])]

RECURSIVE MaxVersionNumber(_)
MaxVersionNumber(versions) ==
    IF versions = <<>> THEN 0
    ELSE Max(VersionNumber(Head(versions).version), MaxVersionNumber(Tail(versions)))

nextVersion_Reuses(m) ==
    IF Len(m.versions) = 0 THEN "v1"
    ELSE VersionName(MaxVersionNumber(m.versions))
nextVersion(m) ==
    IF Len(m.versions) = 0 THEN "v1"
    ELSE VersionName(MaxVersionNumber(m.versions) + 1)

\* writeFileSync(versionedPath, ...) on the files of the store
WriteVersionFile(files, version, content) ==
    IF VersionNumber(version) <= Len(files)
    THEN [files EXCEPT ![VersionNumber(version)] = content]
    ELSE Append(files, content)

\* how far saveBenchmarkVersion gets: it returns, or one of its writes throws
SaveOutcomes == {"ok", "throwVersionFile", "throwLatestFile", "throwManifest"}

\* saveBenchmarkVersion(ps) called by caller, ending as outcome says
SaveBenchmarkVersion(ps, outcome, caller) ==
    LET version == nextVersion(manifest)
        versionMeta == [version |-> version, pairCount |-> Len(ps),
                        corpusDocCount |-> corpusDocs]
    IN /\ bmVersions' = IF outcome = "throwVersionFile" THEN bmVersions
                        ELSE WriteVersionFile(bmVersions, version, JsonPairs(ps))
       /\ latestFile' = IF outcome \in {"throwVersionFile", "throwLatestFile"}
                        THEN latestFile
                        ELSE Some(JsonPairs(ps))
       /\ manifest' = IF outcome = "ok"
                      THEN [latest |-> version, versions |-> Append(manifest.versions, versionMeta)]
                      ELSE manifest
       /\ saved' = IF outcome = "ok"
                   THEN Append(saved, [version |-> version, pairs |-> ps, by |-> caller])
                   ELSE saved

ImportFailed(path, message) ==
    /\ imports' = Some([path |-> path, error |-> message, result |-> None,
                        rows |-> 0, skipped |-> 0])
    /\ UNCHANGED <<bmVersions, latestFile, manifest, saved>>

\* importQAFromCSV(csvPath)
ImportQAFromCSV ==
    /\ storeCalls < MaxStoreCalls
    /\ storeCalls' = storeCalls + 1
    /\ \E path \in 1..(Len(csvFiles) + 1) :
          IF path > Len(csvFiles) THEN ImportFailed(path, "CsvNotFound")
          ELSE IF csvFiles[path].errors THEN ImportFailed(path, "CsvParseError")
          ELSE IF Len(csvFiles[path].rows) = 0 THEN ImportFailed(path, "NoDataRows")
          ELSE LET rows == csvFiles[path].rows
                   c == Categorize(rows, 1, [kept |-> 0, discarded |-> 0, edited |-> 0,
                                             validPairs |-> <<>>, errors |-> <<>>])
                   validPairs == Resequence(c.validPairs)
               IN \E outcome \in SaveOutcomes :
                     /\ SaveBenchmarkVersion(validPairs, outcome, "importQAFromCSV")
                     /\ imports' = Some(
                           [path |-> path,
                            error |-> IF outcome = "ok" THEN Null ELSE IoError,
                            result |-> IF outcome = "ok"
                                       THEN Some([kept |-> c.kept, discarded |-> c.discarded,
                                                  edited |-> c.edited,
                                                  total |-> Len(validPairs),
                                                  version |-> nextVersion(manifest)])
                                       ELSE None,
                            rows |-> Len(rows), skipped |-> Len(c.errors)])
    /\ UNCHANGED <<csvFiles, corpusDocs, optVersion, optLimit, pc, pairs, i, actual, meta,
                   results, runLog, progress, ret, err, loaded, analyzerVars, calls,
                   judgeVars, improverVars, toolVars>>

GivenPair(id, question) ==
    [id |-> id, question |-> question, expectedAnswer |-> "a",
     dimensions |-> [questionType |-> "factual", difficulty |-> "surface",
                     sourceFormat |-> "pdf", edgeCase |-> Undef]]

\* pair lists handed to saveBenchmarkVersion by callers other than the import
GivenPairs ==
    { <<>>,
      <<GivenPair("qa-001", "q1"), GivenPair("qa-002", "q2")>>,
      <<GivenPair("h1", "q1"), GivenPair("h2", "q2")>>,
      <<GivenPair("qa-001", "q1"), GivenPair("qa-003", "q3")>> }

\* saveBenchmarkVersion(ps) called directly
SaveBenchmarkVersionCall ==
    /\ storeCalls < MaxStoreCalls
    /\ storeCalls' = storeCalls + 1
    /\ \E ps \in GivenPairs : \E outcome \in SaveOutcomes :
          SaveBenchmarkVersion(ps, outcome, "caller")
    /\ UNCHANGED <<csvFiles, imports, corpusDocs, optVersion, optLimit, pc, pairs, i,
                   actual, meta, results, runLog, progress, ret, err, loaded,
                   analyzerVars, calls, judgeVars, improverVars, toolVars>>

RECURSIVE SeqsUpTo(_, _)
SeqsUpTo(S, n) ==
    IF n = 0 THEN {<<>>}
    ELSE SeqsUpTo(S, n - 1) \cup
         {Append(q, x) : q \in {r \in SeqsUpTo(S, n - 1) : Len(r) = n - 1}, x \in S}

CsvFile(rows) == [errors |-> FALSE, rows |-> rows]

\* three reviewed files of different content and one that does not parse
ReviewedFiles ==
    << CsvFile(<<[id |-> "qa-001", question |-> "q1", expected_answer |-> "a1",
                  source |-> "doc.pdf", edge_case |-> ""]>>),
       CsvFile(<<[id |-> "qa-001", question |-> "q1", expected_answer |-> "a1 corrected",
                  source |-> "doc.pdf", edge_case |-> "", status |-> " Edit "],
                 [id |-> "qa-002", question |-> "q5", expected_answer |-> "",
                  source |-> "doc.pdf", edge_case |-> "not_answerable"]>>),
       CsvFile(<<[id |-> "qa-003", question |-> "", expected_answer |-> "", source |-> "",
                  edge_case |-> "", status |-> "discard"]>>),
       [errors |-> TRUE, rows |-> <<>>] >>

\* an empty store; on disk either one reviewed file of any rows or ReviewedFiles
InitBench ==
    /\ manifest = EmptyManifest /\ latestFile = None /\ bmVersions = <<>>
    /\ storeCalls = 0 /\ imports = None /\ saved = <<>>
    /\ ToolsIdle
    /\ \/ \E rows \in SeqsUpTo(CsvRowKinds, MaxRows) : csvFiles = <<CsvFile(rows)>>
       \/ csvFiles = ReviewedFiles
    /\ corpusDocs = 1
    /\ optVersion = Undef /\ optLimit = None
    /\ pc = "idle" /\ pairs = <<>> /\ i = 0 /\ actual = Null /\ meta = None
    /\ results = <<>> /\ runLog = <<>> /\ progress = <<>> /\ ret = None
    /\ err = Null /\ loaded = [called |-> FALSE, value |-> None]
    /\ run = <<>>
    /\ AnalyzerIdle
    /\ calls = <<>>
    /\ JudgeIdle
    /\ ImproverIdle

NextBench == ImportQAFromCSV \/ SaveBenchmarkVersionCall

SpecBench == InitBench /\ [][NextBench]_vars

\* ------------------------------------------------------------------------
\* Eval history: the run files and loadHistory
\* ------------------------------------------------------------------------
\* names given to loop eval --benchmark; every name loads the custom benchmark
BenchmarkNames == {"custom", "financebench"}

\* position of the benchmark names in the order of String.prototype.sort
NameRank(name) == IF name = "custom" THEN 1 ELSE 2

\* summary.accuracy of a finished run
Accuracies == {Ratio(0, 1), Ratio(1, 2), Ratio(1, 1)}

\* the file {benchmarkName}-{startTime}.jsonl: its meta line, and its summary
\* line if the run got that far
RunFile(name, startTime, summary) ==
    [benchmark |-> name, startTime |-> startTime, summary |-> summary]

\* a < b for two file names {benchmark}-{timestamp}.jsonl, compared as strings
FileNameLess(a, b) ==
    \/ NameRank(a.benchmark) < NameRank(b.benchmark)
    \/ a.benchmark = b.benchmark /\ a.startTime < b.startTime

\* files.sort()
RECURSIVE SortFiles(_)
SortFiles(S) ==
    IF S = {} THEN <<>>
    ELSE LET first == CHOOSE f \in S : \A g \in S \ {f} : FileNameLess(f, g)
         IN <<first>> \o SortFiles(S \ {first})

\* lastAccuracy - firstAccuracy
RatMinus(a, b) == <<a[1] * b[2] - b[1] * a[2], a[2] * b[2]>>

\* the clock counts thirds of a day: 24 * 60 * 60 * 1000 ms are three ticks
DayLength == 3

\* the loop of findNote over the improvements from position k on
RECURSIVE BestMatch(_, _, _, _)
BestMatch_AnyTimeBefore(runTime, improvements, k, best) ==
    IF k > Len(improvements) THEN best
    ELSE LET imp == improvements[k]
             diff == runTime - imp.timestamp
         IN IF imp.applied /\ diff > 0
               /\ (best = None \/ diff < runTime - best[1].timestamp)
            THEN BestMatch(runTime, improvements, k + 1, Some(imp))
            ELSE BestMatch(runTime, improvements, k + 1, best)
BestMatch(runTime, improvements, k, best) ==
    IF k > Len(improvements) THEN best
    ELSE LET imp == improvements[k]
             diff == runTime - imp.timestamp
         IN IF imp.applied /\ diff > 0 /\ diff < DayLength
               /\ (best = None \/ diff < runTime - best[1].timestamp)
            THEN BestMatch(runTime, improvements, k + 1, Some(imp))
            ELSE BestMatch(runTime, improvements, k + 1, best)

\* findNote(runTimestamp, improvements): the note, None for undefined
findNote(runTimestamp, improvements) ==
    IF Len(improvements) = 0 THEN None
    ELSE LET bestMatch == BestMatch(runTimestamp, improvements, 1, None)
         IN IF bestMatch # None THEN Some("fix: " \o bestMatch[1].targetValue)
            ELSE None

\* the entries pushed for the sorted files from position k on
RECURSIVE HistoryEntries(_, _)
HistoryEntries(files, k) ==
    IF k > Len(files) THEN <<>>
    ELSE IF files[k].summary = None THEN HistoryEntries(files, k + 1)
         ELSE <<[timestamp |-> files[k].startTime,
                 runId |-> <<files[k].benchmark, files[k].startTime>>,
                 benchmark |-> files[k].benchmark,
                 accuracy |-> files[k].summary[1],
                 note |-> findNote(files[k].startTime, loadImprovements)]>>
              \o HistoryEntries(files, k + 1)

\* loadHistory(benchmarkName)
loadHistory(benchmarkName) ==
    LET files == SortFiles({runFiles[n] : n \in
                    {m \in 1..Len(runFiles) :
                        benchmarkName = Undef \/ runFiles[m].benchmark = benchmarkName}})
        entries == HistoryEntries(files, 1)
        firstAccuracy == IF Len(entries) > 0 THEN Some(entries[1].accuracy) ELSE None
        lastAccuracy == IF Len(entries) > 0 THEN Some(entries[Len(entries)].accuracy)
                        ELSE None
    IN [entries |-> entries, firstAccuracy |-> firstAccuracy,
        lastAccuracy |-> lastAccuracy,
        delta |-> IF firstAccuracy # None /\ lastAccuracy # None
                  THEN Some(RatMinus(lastAccuracy[1], firstAccuracy[1]))
                  ELSE None]

BaseFrame ==
    UNCHANGED <<manifest, latestFile, csvFiles, storeCalls, imports, saved, bmVersions,
                corpusDocs, optVersion, optLimit, pc, pairs, i, actual, meta, results,
                runLog, progress, ret, err, loaded, analyzerVars, calls, judgeVars>>

StoreFrame == BaseFrame /\ UNCHANGED <<verdictVars, chatVars, minerVars>>

HistoryFrame == StoreFrame /\ UNCHANGED improverVars

\* runEval(name) runs to its summary line
RunEvalCompletes ==
    /\ Len(runFiles) + Len(ledger) < MaxRuns
    /\ \E name \in BenchmarkNames : \E accuracy \in Accuracies :
          runFiles' = Append(runFiles, RunFile(name, now, Some(accuracy)))
    /\ now' = now + 1
    /\ history' = None
    /\ HistoryFrame

\* runEval(name) writes its meta line and ends before its summary line
RunEvalInterrupted ==
    /\ Len(runFiles) + Len(ledger) < MaxRuns
    /\ \E name \in BenchmarkNames : runFiles' = Append(runFiles, RunFile(name, now, None))
    /\ now' = now + 1
    /\ history' = None
    /\ HistoryFrame

LoadHistory ==
    /\ \E benchmarkName \in {Undef} \cup BenchmarkNames :
          history' = Some([benchmarkName |-> benchmarkName,
                           value |-> loadHistory(benchmarkName)])
    /\ UNCHANGED <<runFiles, now>>
    /\ HistoryFrame

\* values of the dimension an applied Improvement targeted
TargetValues == {"calculation", "factual"}

\* the Improvement of an earlier suggestImprovement, as far as the ledger keeps it
SuggestedImprovement(value) ==
    [targetDimension |-> "questionType", targetValue |-> value,
     proposedDelta |-> "## Calculations", beforeAccuracy |-> Ratio(0, 1),
     afterAccuracy |-> Ratio(1, 1), regressions |-> <<>>]

\* applyImprovement(improvement, runId) returns: system.md and the ledger are written
ImprovementApplied ==
    /\ Len(runFiles) + Len(ledger) < MaxRuns
    /\ \E value \in TargetValues :
          LET improvement == SuggestedImprovement(value)
          IN /\ promptFile' = Some(AugmentedPrompt(getCurrentSystemPrompt,
                                                   improvement.proposedDelta))
             /\ ledger' = appendFileSync(ledger,
                                         ImprovementLogOf(improvement, AppliedRunId, now))
    /\ history' = None
    /\ UNCHANGED <<runFiles, now, persona, ipc, worstDim, reflections, currentPrompt,
                   proposedDelta, tphase, tanswer, failTestResults, passTestResults,
                   steps, iret, ierr, applies>>
    /\ StoreFrame

\* the clock reaches the next third of a day
TimePasses ==
    /\ now < MaxTime
    /\ now' = now + 1
    /\ history' = None
    /\ UNCHANGED runFiles
    /\ HistoryFrame

InitHistory ==
    /\ EvalIdle
    /\ run = <<>>
    /\ AnalyzerIdle
    /\ calls = <<>>
    /\ JudgeIdle
    /\ ImproverIdle

NextHistory == RunEvalCompletes \/ RunEvalInterrupted \/ LoadHistory

\* runs and applied improvements at the times of a clock, and loadHistory
NextNotes == RunEvalCompletes \/ ImprovementApplied \/ TimePasses \/ LoadHistory

SpecNotes == InitHistory /\ [][NextNotes]_vars

SpecHistory == InitHistory /\ [][NextHistory]_vars

\* ------------------------------------------------------------------------
\* Verdict parsing: parseGradeResponse and parseJudgeVerdict
\* ------------------------------------------------------------------------
CharAt(s, p) == SubSeq(s, p, p)

\* the characters \s matches, and those \w matches
Whitespace == {" ", "\n", "\t"}
LowerCase == "abcdefghijklmnopqrstuvwxyz"
UpperCase == "ABCDEFGHIJKLMNOPQRSTUVWXYZ"
Digits == "0123456789_"
CharsOf(s) == {CharAt(s, k) : k \in 1..Len(s)}
WordChars == CharsOf(LowerCase) \cup CharsOf(UpperCase) \cup CharsOf(Digits)
IsWordChar(c) == c \in WordChars

\* the character as the flag i compares it
ToUpperCase ==
    [c \in CharsOf(LowerCase) |->
        CharAt(UpperCase, CHOOSE k \in 1..Len(LowerCase) : c = CharAt(LowerCase, k))]
UpperOf(c) == IF c \in DOMAIN ToUpperCase THEN ToUpperCase[c] ELSE c

\* text.trim()
RECURSIVE TrimStart(_)
TrimStart(s) ==
    IF Len(s) > 0 /\ CharAt(s, 1) \in Whitespace THEN TrimStart(SubSeq(s, 2, Len(s)))
    ELSE s
RECURSIVE TrimEnd(_)
TrimEnd(s) ==
    IF Len(s) > 0 /\ CharAt(s, Len(s)) \in Whitespace THEN TrimEnd(SubSeq(s, 1, Len(s) - 1))
    ELSE s
TrimText(s) == TrimEnd(TrimStart(s))

\* text.slice(0, n)
Slice(s, n) == SubSeq(s, 1, Min(n, Len(s)))

\* the word w stands at position p of s, letters compared without case
StandsAt(s, p, w) ==
    /\ p + Len(w) - 1 <= Len(s)
    /\ \A k \in 1..Len(w) : UpperOf(CharAt(s, p + k - 1)) = UpperOf(CharAt(w, k))

\* positions where /^MARKER\s*(.+)/im matches: the marker at the start of a
\* line, then whitespace, then at least one character of a line
MarkerMatches(s, marker) ==
    {p \in 1..Len(s) :
        /\ p = 1 \/ CharAt(s, p - 1) = "\n"
        /\ StandsAt(s, p, marker)
        /\ \E q \in (p + Len(marker))..Len(s) : CharAt(s, q) \notin Whitespace}

\* the group (.+) of the leftmost match
Captured(s, marker) ==
    LET p == CHOOSE x \in MarkerMatches(s, marker) :
                 \A y \in MarkerMatches(s, marker) : x <= y
        from == CHOOSE q \in (p + Len(marker))..Len(s) :
                    /\ CharAt(s, q) \notin Whitespace
                    /\ \A r \in (p + Len(marker))..(q - 1) : CharAt(s, r) \in Whitespace
        ends == {q \in from..Len(s) : CharAt(s, q) = "\n"}
        to == IF ends = {} THEN Len(s)
              ELSE (CHOOSE q \in ends : \A r \in ends : q <= r) - 1
    IN SubSeq(s, from, to)

\* /\bword\b/i.test(s)
HasWord(s, word) ==
    \E p \in 1..Len(s) :
        /\ StandsAt(s, p, word)
        /\ p = 1 \/ ~IsWordChar(CharAt(s, p - 1))
        /\ p + Len(word) > Len(s) \/ ~IsWordChar(CharAt(s, p + Len(word)))

ReasonLimit == 200

\* the body shared by the two parsers; they differ in the prefix of the
\* reason they give for a text they cannot parse
ParseVerdict(text, prefix) ==
    LET trimmed == TrimText(text)
    IN IF MarkerMatches(trimmed, "PASS:") # {}
       THEN [pass |-> TRUE, reason |-> TrimText(Captured(trimmed, "PASS:"))]
       ELSE IF MarkerMatches(trimmed, "FAIL:") # {}
       THEN [pass |-> FALSE, reason |-> TrimText(Captured(trimmed, "FAIL:"))]
       ELSE IF HasWord(trimmed, "pass")
       THEN [pass |-> TRUE, reason |-> Slice(trimmed, ReasonLimit)]
       ELSE IF HasWord(trimmed, "fail")
       THEN [pass |-> FALSE, reason |-> Slice(trimmed, ReasonLimit)]
       ELSE [pass |-> FALSE, reason |-> prefix \o Slice(trimmed, ReasonLimit)]

parseGradeResponse(text) == ParseVerdict(text, "Unparseable grader response: ")

parseJudgeVerdict(text) == ParseVerdict(text, "Unparseable verdict: ")

\* pieces of the texts a language model answers with; the last has 201 characters
X50 == "xxxxxxxxxxxxxxxxxxxxxxxxxxxxxxxxxxxxxxxxxxxxxxxxxx"
LongPiece == X50 \o X50 \o X50 \o X50 \o "y"
Pieces == {"PASS:", "FAIL:", "pass", "fail", "ed ", "\n", LongPiece}

RECURSIVE Concat(_)
Concat(ps) == IF ps = <<>> THEN "" ELSE Head(ps) \o Concat(Tail(ps))

VerdictFrame == BaseFrame /\ UNCHANGED <<improverVars, historyVars, chatVars, minerVars>>

ParseGradeResponse ==
    /\ parsed = None
    /\ parsed' = Some([parser |-> "grader", value |-> parseGradeResponse(response)])
    /\ UNCHANGED response
    /\ VerdictFrame

ParseJudgeVerdict ==
    /\ parsed = None
    /\ parsed' = Some([parser |-> "judge", value |-> parseJudgeVerdict(response)])
    /\ UNCHANGED response
    /\ VerdictFrame

InitVerdict ==
    /\ RunnerIdle
    /\ HistoryIdle
    /\ ChatIdle
    /\ MinerIdle
    /\ run = <<>>
    /\ AnalyzerIdle
    /\ calls = <<>>
    /\ JudgeIdle
    /\ ImproverIdle
    /\ \E n \in 0..MaxPieces : \E ps \in [1..n -> Pieces] : response = Concat(ps)
    /\ parsed = None

NextVerdict == ParseGradeResponse \/ ParseJudgeVerdict

SpecVerdict == InitVerdict /\ [][NextVerdict]_vars

\* ------------------------------------------------------------------------
\* Chat signals
\* ------------------------------------------------------------------------
\* text.toLowerCase()
ToLowerCaseChar ==
    [c \in CharsOf(UpperCase) |->
        CharAt(LowerCase, CHOOSE k \in 1..Len(UpperCase) : c = CharAt(UpperCase, k))]
LowerOf(c) == IF c \in DOMAIN ToLowerCaseChar THEN ToLowerCaseChar[c] ELSE c
RECURSIVE LowerText(_)
LowerText(s) ==
    IF Len(s) = 0 THEN "" ELSE LowerOf(CharAt(s, 1)) \o LowerText(SubSeq(s, 2, Len(s)))

\* the characters [a-z0-9] matches
AlnumChars == CharsOf(LowerCase) \cup CharsOf("0123456789")

\* \b holds before position q of s: one side is a word character, the other is not
WordAt(s, q) == q >= 1 /\ q <= Len(s) /\ IsWordChar(CharAt(s, q))
Boundary(s, q) == WordAt(s, q - 1) # WordAt(s, q)

\* the position after the whitespace that starts at p
RECURSIVE SkipSpace(_, _)
SkipSpace(s, p) ==
    IF p <= Len(s) /\ CharAt(s, p) \in Whitespace THEN SkipSpace(s, p + 1) ELSE p

\* the words from the k-th on stand at p with \s+ between them: the position
\* after the last word, 0 when they do not
RECURSIVE PhraseEnd(_, _, _, _)
PhraseEnd(s, p, words, k) ==
    IF ~StandsAt(s, p, words[k]) THEN 0
    ELSE LET e == p + Len(words[k])
         IN IF k = Len(words) THEN e
            ELSE IF SkipSpace(s, e) = e THEN 0
                 ELSE PhraseEnd(s, SkipSpace(s, e), words, k + 1)

\* a pattern of the dictionaries is written as the word sequences its
\* alternatives and optional characters spell out; every pattern starts with
\* \b, and "end" is what follows the last word: \b, \s or nothing
Phrases1(A) == {<<a>> : a \in A}
Phrases2(A, B) == {<<a, b>> : a \in A, b \in B}
Phrases3(A, B, C) == {<<a, b, c>> : a \in A, b \in B, c \in C}
Phrases4(A, B, C, D) == {<<a, b, c, d>> : a \in A, b \in B, c \in C, d \in D}
Pattern(phrases, end) == [phrases |-> phrases, end |-> end]

\* that'?s? and it'?s?
That == {"that", "that'", "thats", "that's"}
It == {"it", "it'", "its", "it's"}

CORRECTION_PATTERNS ==
    << Pattern(Phrases2(That, {"wrong", "incorrect", "inaccurate"})
                 \cup Phrases3(That, {"not"}, {"right"}), "b"),
       Pattern(Phrases2({"no", "no,", "no."}, It \cup {"the", "that", "actually"}), "b"),
       Pattern(Phrases2({"actually"}, It \cup {"the", "that"}), "b"),
       Pattern(Phrases1({"wrong", "wrong.", "wrong,"}), "s"),
       Pattern(Phrases1({"incorrect"}), "b"),
       Pattern(Phrases2({"not"}, {"correct"}), "b"),
       Pattern(Phrases3(That, {"not"}, {"what", "how", "the"}), "b"),
       Pattern(Phrases2({"you're", "youre"}, {"wrong"}), "b"),
       Pattern(Phrases4({"the"}, {"correct", "right", "actual"},
                        {"answer", "value", "number", "amount", "figure"}, {"is"}), "b"),
       Pattern(Phrases3({"it"}, {"should"}, {"be"}), "b"),
       Pattern(Phrases3({"should"}, {"be"}, {"$"}), ""),
       Pattern(Phrases3({"changed"}, {"it"}, {"to"}), "b") >>

SATISFACTION_PATTERNS ==
    << Pattern(Phrases1({"thank", "thanks"}), "b"),
       Pattern(Phrases2({"thank"}, {"you"}), "b"),
       Pattern(Phrases1({"great"}), "b"),
       Pattern(Phrases1({"perfect"}), "b"),
       Pattern(Phrases1({"excellent"}), "b"),
       Pattern(Phrases2({"got"}, {"it"}), "b"),
       Pattern(Phrases2(That, {"right", "correct", "helpful", "exactly"}), "b"),
       Pattern(Phrases1({"awesome"}), "b"),
       Pattern(Phrases1({"nice"}), "b"),
       Pattern(Phrases2({"good"}, {"answer", "job", "work"}), "b"),
       Pattern(Phrases2({"makes"}, {"sense"}), "b"),
       Pattern(Phrases1({"helpful"}), "b") >>

\* pattern.test(content)
Test(pattern, content) ==
    \E p \in 1..Len(content) :
        /\ Boundary(content, p)
        /\ \E words \in pattern.phrases :
              LET e == PhraseEnd(content, p, words, 1)
              IN /\ e # 0
                 /\ CASE pattern.end = "b" -> Boundary(content, e)
                      [] pattern.end = "s" -> e <= Len(content) /\ CharAt(content, e) \in Whitespace
                      [] OTHER -> TRUE

\* patterns.filter((p) => p.test(content)).length
MatchCount(patterns, content) ==
    Cardinality({k \in 1..Len(patterns) : Test(patterns[k], content)})

\* what the user types, and what the assistant streams back
Messages ==
    {"What is the engine reserve?",
     "What is the engine reserve rate?",
     "No, that's incorrect. Actually it should be $5",
     "incorrect",
     "Thanks, that's helpful"}
Responses == {"$350 per hour"}

\* a question of ten characters, four of them not blank
PaddedQuestion == "   Why?   "
KnownMessages == Messages \cup {PaddedQuestion}

\* the match counts of the messages, computed once
CorrectionCounts == [m \in KnownMessages |-> MatchCount(CORRECTION_PATTERNS, m)]
SatisfactionCounts == [m \in KnownMessages |-> MatchCount(SATISFACTION_PATTERNS, m)]
CountMatches(patterns, content) ==
    IF content \in KnownMessages /\ patterns = CORRECTION_PATTERNS THEN CorrectionCounts[content]
    ELSE IF content \in KnownMessages /\ patterns = SATISFACTION_PATTERNS
         THEN SatisfactionCounts[content]
         ELSE MatchCount(patterns, content)

\* the stop words of significantWords
STOP ==
    {"the", "a", "an", "is", "are", "was", "were", "be", "been", "being",
     "have", "has", "had", "do", "does", "did", "will", "would", "shall",
     "should", "may", "might", "must", "can", "could", "about", "above",
     "after", "again", "all", "also", "and", "any", "because", "before",
     "between", "both", "but", "by", "came", "com", "each", "for", "from",
     "get", "got", "her", "here", "him", "his", "how", "if", "in", "into",
     "its", "just", "let", "like", "make", "many", "me", "more", "most",
     "much", "my", "new", "not", "now", "of", "on", "one", "only", "or",
     "other", "our", "out", "over", "said", "she", "so", "some", "than",
     "that", "them", "then", "there", "these", "they", "this", "those",
     "through", "to", "too", "under", "up", "upon", "very", "way", "we",
     "well", "what", "when", "where", "which", "while", "who", "whom",
     "why", "with", "you", "your"}

\* text.toLowerCase().match(/[a-z0-9]+/g), as a set
AlnumRuns(text) ==
    LET l == LowerText(text)
        alnum(q) == q >= 1 /\ q <= Len(l) /\ CharAt(l, q) \in AlnumChars
    IN {SubSeq(l, a, b) : <<a, b>> \in
           {ab \in (1..Len(l)) \X (1..Len(l)) :
               /\ ab[1] <= ab[2]
               /\ \A q \in ab[1]..ab[2] : alnum(q)
               /\ ~alnum(ab[1] - 1)
               /\ ~alnum(ab[2] + 1)}}

SignificantRuns(text) == {w \in AlnumRuns(text) : Len(w) > 2 /\ w \notin STOP}
SignificantOfMessages == [m \in KnownMessages |-> SignificantRuns(m)]
significantWords(text) ==
    IF text \in KnownMessages THEN SignificantOfMessages[text] ELSE SignificantRuns(text)

\* Jaccard similarity of two word sets, as a fraction
wordOverlap(a, b) ==
    IF a = {} \/ b = {} THEN <<0, 1>>
    ELSE <<Cardinality(a \cap b), Cardinality(a \cup b)>>

\* /\?/.test(text) || /^(what|who|...|would)\b/i.test(text.trim())
StartsWithWord(text, words, bounded) ==
    \E w \in words :
        /\ StandsAt(text, 1, w)
        /\ bounded => Boundary(text, Len(w) + 1)
Contains(text, c) == \E q \in 1..Len(text) : CharAt(text, q) = c
isQuestion(text) ==
    \/ Contains(text, "?")
    \/ StartsWithWord(TrimText(text),
                      {"what", "who", "when", "where", "why", "how", "which", "is", "are",
                       "does", "do", "can", "could", "will", "would"}, TRUE)

\* the user turns of a log, in order: content and turn number
RECURSIVE UserTurnsFrom(_, _, _)
UserTurnsFrom(logEntries, k, userTurns) ==
    IF k > Len(logEntries) THEN userTurns
    ELSE LET entry == logEntries[k]
         IN IF entry.type = "turn" /\ entry.role = "user" /\ entry.content # ""
            THEN UserTurnsFrom(logEntries, k + 1,
                     Append(userTurns,
                            [content |-> entry.content,
                             turn |-> IF entry.turn # None THEN entry.turn[1]
                                      ELSE Len(userTurns) + 1]))
            ELSE UserTurnsFrom(logEntries, k + 1, userTurns)

\* Math.min(0.5 + matchCount * 0.15, 1.0), in hundredths
PatternConfidence_Uncapped(matchCount) == <<50 + matchCount * 15, 100>>
PatternConfidence(matchCount) == <<Min(50 + matchCount * 15, 100), 100>>

Signal(signal, confidence, turn, detail) ==
    [signal |-> signal, confidence |-> confidence, turn |-> turn, detail |-> detail]

\* one loop over the user turns with a dictionary: one signal for each turn
\* some pattern matches
RECURSIVE PatternSignals(_, _, _, _, _)
PatternSignals(userTurns, k, patterns, signal, label) ==
    IF k > Len(userTurns) THEN <<>>
    ELSE LET ut == userTurns[k]
             matchCount == CountMatches(patterns, ut.content)
             rest == PatternSignals(userTurns, k + 1, patterns, signal, label)
         IN IF matchCount > 0
            THEN <<Signal(signal, PatternConfidence(matchCount), ut.turn,
                          "User " \o label \o " detected at turn " \o ToString(ut.turn))>>
                 \o rest
            ELSE rest

\* userTurns.filter((ut) => isQuestion(ut.content))
RECURSIVE QuestionTurns(_)
QuestionTurns(userTurns) ==
    IF userTurns = <<>> THEN <<>>
    ELSE IF isQuestion(Head(userTurns).content)
         THEN <<Head(userTurns)>> \o QuestionTurns(Tail(userTurns))
         ELSE QuestionTurns(Tail(userTurns))

\* (overlap * 100).toFixed(0)
Percent(overlap) == (200 * overlap[1] + overlap[2]) \div (2 * overlap[2])

\* the reformulation of question k: the first of the two questions before it
\* that shares at least 0.4 of the words
RECURSIVE ReformulationSignals(_, _)
ReformulationSignals(questionTurns, k) ==
    IF k > Len(questionTurns) THEN <<>>
    ELSE LET current == questionTurns[k]
             overlapWith(j) == wordOverlap(significantWords(questionTurns[j].content),
                                           significantWords(current.content))
             similar == {j \in Max(1, k - 2)..(k - 1) :
                            5 * overlapWith(j)[1] >= 2 * overlapWith(j)[2]}
             rest == ReformulationSignals(questionTurns, k + 1)
         IN IF similar = {} THEN rest
            ELSE LET j == CHOOSE x \in similar : \A y \in similar : x <= y
                     overlap == overlapWith(j)
                     prev == questionTurns[j]
                 IN <<Signal("reformulation",
                             <<Min(overlap[2] + 2 * overlap[1], 2 * overlap[2]),
                               2 * overlap[2]>>,
                             current.turn,
                             "User reformulated question from turn " \o ToString(prev.turn)
                               \o " at turn " \o ToString(current.turn) \o " (overlap: "
                               \o ToString(Percent(overlap)) \o "%)")>> \o rest

\* 3+ user turns in a session
FollowUpSignals(userTurns) ==
    IF Len(userTurns) >= 3
    THEN <<Signal("follow_up_depth", <<Min(50 + (Len(userTurns) - 2) * 10, 100), 100>>,
                  userTurns[Len(userTurns)].turn,
                  ToString(Len(userTurns)) \o " turns - sustained engagement")>>
    ELSE <<>>

detectSignals(logEntries) ==
    LET userTurns == UserTurnsFrom(logEntries, 1, <<>>)
    IN PatternSignals(userTurns, 1, CORRECTION_PATTERNS, "correction", "correction")
       \o PatternSignals(userTurns, 1, SATISFACTION_PATTERNS, "satisfaction", "satisfaction")
       \o ReformulationSignals(QuestionTurns(userTurns), 2)
       \o FollowUpSignals(userTurns)

\* ------------------------------------------------------------------------
\* ChatSession
\* ------------------------------------------------------------------------
DisposedError == "Session has ended. Create a new ChatSession."
SessionError == "createLoopSession failed"
PromptError == "prompt failed"

ChatTurn(turn, role, content) == [turn |-> turn, role |-> role, content |-> content]

\* the lines of SessionLogger
logStart == [type |-> "session_start"]
logTurn(role, content, turn) ==
    [type |-> "turn", role |-> role, content |-> content, turn |-> Some(turn)]
logSignal(sig) ==
    [type |-> "signal", signal |-> sig.signal, confidence |-> sig.confidence,
     turn |-> Some(sig.turn), detail |-> sig.detail]
logEnd(totalTurns) == [type |-> "session_end", totalTurns |-> totalTurns]

ChatFrame == BaseFrame /\ UNCHANGED <<improverVars, historyVars, verdictVars, minerVars>>

\* send(): this._turnCount++, the user turn pushed and logged, up to the
\* await of piSession.prompt; log is the session file as it is by then
SendUserTurn(call, message, log) ==
    /\ turnCount' = turnCount + 1
    /\ turns' = Append(turns, ChatTurn(turnCount + 1, "user", message))
    /\ sessionLog' = Append(log, logTurn("user", message, turnCount + 1))
    /\ sending' = Some([call |-> call, message |-> message, at |-> "prompt"])

\* send(message) on a session that has not ended, up to its first await
Send ==
    /\ ~disposed
    /\ sending = None
    /\ sendCalls < MaxSends
    /\ sendCalls' = sendCalls + 1
    /\ \E message \in Messages :
          IF ~piSession
          THEN /\ sending' = Some([call |-> sendCalls + 1, message |-> message,
                                   at |-> "create"])
               /\ UNCHANGED <<turnCount, turns, sessionLog>>
          ELSE SendUserTurn(sendCalls + 1, message, sessionLog)
    /\ UNCHANGED <<disposed, piSession, sent, ended>>
    /\ ChatFrame

\* send(message) on a session that has ended
SendRejected_StillLogs ==
    /\ disposed
    /\ sendCalls < MaxSends
    /\ sendCalls' = sendCalls + 1
    /\ \E message \in Messages :
          /\ sent' = Some([call |-> sendCalls + 1, message |-> message,
                           error |-> Some(DisposedError), answer |-> None])
          /\ sessionLog' = Append(sessionLog, logTurn("user", message, turnCount))
    /\ UNCHANGED <<disposed, piSession, turnCount, turns, sending, ended>>
    /\ ChatFrame
SendRejected ==
    /\ disposed
    /\ sendCalls < MaxSends
    /\ sendCalls' = sendCalls + 1
    /\ \E message \in Messages :
          sent' = Some([call |-> sendCalls + 1, message |-> message,
                        error |-> Some(DisposedError), answer |-> None])
    /\ UNCHANGED <<disposed, piSession, turnCount, turns, sessionLog, sending, ended>>
    /\ ChatFrame

\* createLoopSession returns to the first send
CreateLoopSessionReturns ==
    /\ sending # None /\ sending[1].at = "create"
    /\ piSession' = TRUE
    /\ SendUserTurn(sending[1].call, sending[1].message, Append(sessionLog, logStart))
    /\ UNCHANGED <<disposed, sendCalls, sent, ended>>
    /\ ChatFrame

CreateLoopSessionThrows ==
    /\ sending # None /\ sending[1].at = "create"
    /\ sending' = None
    /\ sent' = Some([call |-> sending[1].call, message |-> sending[1].message,
                     error |-> Some(SessionError), answer |-> None])
    /\ UNCHANGED <<disposed, piSession, turnCount, turns, sessionLog, sendCalls, ended>>
    /\ ChatFrame

\* piSession.prompt returns: the assistant turn, with the turn number of the
\* user turn
PromptReturns ==
    /\ sending # None /\ sending[1].at = "prompt"
    /\ \E fullResponse \in Responses :
          /\ turns' = Append(turns, ChatTurn(turnCount, "assistant", fullResponse))
          /\ sessionLog' = Append(sessionLog, logTurn("assistant", fullResponse, turnCount))
          /\ sent' = Some([call |-> sending[1].call, message |-> sending[1].message,
                           error |-> None, answer |-> Some(fullResponse)])
    /\ sending' = None
    /\ UNCHANGED <<disposed, piSession, turnCount, sendCalls, ended>>
    /\ ChatFrame

PromptThrows ==
    /\ sending # None /\ sending[1].at = "prompt"
    /\ sending' = None
    /\ sent' = Some([call |-> sending[1].call, message |-> sending[1].message,
                     error |-> Some(PromptError), answer |-> None])
    /\ UNCHANGED <<disposed, piSession, turnCount, turns, sessionLog, sendCalls, ended>>
    /\ ChatFrame

\* the entries end() builds from the turns in memory
TurnEntries(ts) == [k \in 1..Len(ts) |-> logTurn(ts[k].role, ts[k].content, ts[k].turn)]

\* the lines end() appends for the signals
SignalLines(signals) == [k \in 1..Len(signals) |-> logSignal(signals[k])]

EndsLogged == Cardinality({k \in 1..Len(sessionLog) : sessionLog[k].type = "session_end"})

\* end()
End ==
    /\ EndsLogged < MaxEnds
    /\ LET signals == IF turnCount > 0 THEN detectSignals(TurnEntries(turns)) ELSE <<>>
       IN /\ sessionLog' = IF turnCount > 0
                           THEN Append(sessionLog \o SignalLines(signals), logEnd(turnCount))
                           ELSE sessionLog
          /\ ended' = Some([totalTurns |-> turnCount, turns |-> turns, signals |-> signals])
    /\ piSession' = FALSE
    /\ disposed' = TRUE
    /\ UNCHANGED <<turnCount, turns, sendCalls, sending, sent>>
    /\ ChatFrame

InitChat ==
    /\ RunnerIdle
    /\ HistoryIdle
    /\ VerdictIdle
    /\ MinerIdle
    /\ ChatIdle
    /\ run = <<>>
    /\ AnalyzerIdle
    /\ calls = <<>>
    /\ JudgeIdle
    /\ ImproverIdle

NextChat ==
    \/ Send
    \/ SendRejected
    \/ CreateLoopSessionReturns
    \/ CreateLoopSessionThrows
    \/ PromptReturns
    \/ PromptThrows
    \/ End

SpecChat == InitChat /\ [][NextChat]_vars

\* ------------------------------------------------------------------------
\* Chat miner
\* ------------------------------------------------------------------------
\* s.toLowerCase().replace(/[^a-z0-9]/g, "").trim()
RECURSIVE KeepChars(_, _)
KeepChars(s, keep) ==
    IF Len(s) = 0 THEN ""
    ELSE (IF CharAt(s, 1) \in keep THEN CharAt(s, 1) ELSE "")
         \o KeepChars(SubSeq(s, 2, Len(s)), keep)
normalize_KeepsCase(s) == TrimText(KeepChars(s, WordChars \ {"_"}))
normalize(s) == TrimText(KeepChars(LowerText(s), AlnumChars))

\* /\?/.test(text) || /^(what|who|...|compare)/i.test(text.trim())
minerIsQuestion(text) ==
    \/ Contains(text, "?")
    \/ StartsWithWord(TrimText(text),
                      {"what", "who", "when", "where", "why", "how", "which", "is", "are",
                       "does", "do", "can", "could", "will", "would", "tell", "show",
                       "find", "list", "calculate", "compare"}, FALSE)

\* the alternatives of (?:it'?s?|should be|actually|correct (?:answer|value) is),
\* in the order the expression tries them
CorrectionKeywords ==
    <<"it's", "it'", "its", "it", "should be", "actually", "correct answer is",
      "correct value is">>

\* where the group (.+) starts when \s+(.+) is matched from position e: after
\* the whitespace, or on the last whitespace character of the line when
\* nothing else follows; 0 when \s+(.+) does not match
ValueStart(s, e) ==
    LET f == SkipSpace(s, e)
        starts == {g \in (e + 1)..Min(f, Len(s)) : CharAt(s, g) # "\n"}
    IN IF starts = {} THEN 0 ELSE CHOOSE g \in starts : \A h \in starts : h <= g

\* the end of the line that holds position g
LineEnd(s, g) ==
    LET ends == {q \in g..Len(s) : CharAt(s, q) = "\n"}
    IN IF ends = {} THEN Len(s) ELSE (CHOOSE q \in ends : \A r \in ends : q <= r) - 1

\* extractCorrectedValue(correctionText)
extractCorrectedValue(correctionText) ==
    LET keywordAt(p) == {k \in 1..Len(CorrectionKeywords) :
                            /\ StandsAt(correctionText, p, CorrectionKeywords[k])
                            /\ ValueStart(correctionText,
                                          p + Len(CorrectionKeywords[k])) # 0}
        matches == {p \in 1..Len(correctionText) : keywordAt(p) # {}}
    IN IF matches = {} THEN correctionText
       ELSE LET p == CHOOSE x \in matches : \A y \in matches : x <= y
                k == CHOOSE x \in keywordAt(p) : \A y \in keywordAt(p) : x <= y
                g == ValueStart(correctionText, p + Len(CorrectionKeywords[k]))
            IN TrimText(SubSeq(correctionText, g, LineEnd(correctionText, g)))

MinedPair(question, answer, source, sessionFile, turnNumber, confidence, correctedAnswer) ==
    [question |-> question, answer |-> answer, source |-> source,
     sessionFile |-> sessionFile, turnNumber |-> turnNumber, confidence |-> confidence,
     correctedAnswer |-> correctedAnswer]

\* the turn entries of a session file that have a role and a content
RECURSIVE SessionTurns(_, _, _)
SessionTurns(entries, k, acc) ==
    IF k > Len(entries) THEN acc
    ELSE LET entry == entries[k]
         IN IF entry.type = "turn" /\ entry.role # "" /\ entry.content # ""
            THEN SessionTurns(entries, k + 1,
                     Append(acc, [role |-> entry.role, content |-> entry.content,
                                  turn |-> IF entry.turn # None THEN entry.turn[1]
                                           ELSE Len(acc) + 1]))
            ELSE SessionTurns(entries, k + 1, acc)

SignalTurns_AnyKind(signals, kind) == {signals[k].turn : k \in 1..Len(signals)}
SignalTurns(signals, kind) ==
    {signals[k].turn : k \in {j \in 1..Len(signals) : signals[j].signal = kind}}

\* the loop of extractPairsFromSession over the turns, from index n on
RECURSIVE ExtractFrom(_, _, _, _)
ExtractFrom(ts, n, signals, filename) ==
    IF n > Len(ts) - 1 THEN <<>>
    ELSE LET userTurn == ts[n]
             assistantTurn == ts[n + 1]
             rest == ExtractFrom(ts, n + 1, signals, filename)
             later == {m \in (n + 2)..Len(ts) : ts[m].role = "user"}
             nextUserTurn == IF later = {} THEN None
                             ELSE Some(ts[CHOOSE m \in later : \A x \in later : m <= x])
             isCorrection == /\ nextUserTurn # None
                             /\ nextUserTurn[1].turn \in SignalTurns(signals, "correction")
             isSatisfied ==
                 \/ userTurn.turn + 1 \in SignalTurns(signals, "satisfaction")
                 \/ /\ nextUserTurn # None
                    /\ nextUserTurn[1].turn \in SignalTurns(signals, "satisfaction")
         IN IF userTurn.role # "user" \/ assistantTurn.role # "assistant" THEN rest
            ELSE IF Len(TrimText(userTurn.content)) < 10 THEN rest
            ELSE IF ~minerIsQuestion(userTurn.content) THEN rest
            ELSE IF isCorrection
                 THEN <<MinedPair(userTurn.content, assistantTurn.content,
                                  "chat_correction", filename, userTurn.turn, <<9, 10>>,
                                  Some(extractCorrectedValue(nextUserTurn[1].content)))>>
                      \o rest
            ELSE IF isSatisfied
                 THEN <<MinedPair(userTurn.content, assistantTurn.content,
                                  "chat_satisfied", filename, userTurn.turn, <<7, 10>>,
                                  None)>> \o rest
            ELSE <<MinedPair(userTurn.content, assistantTurn.content, "chat_qa",
                             filename, userTurn.turn, <<4, 10>>, None)>> \o rest

extractPairsFromSession(entries, signals, filename) ==
    ExtractFrom(SessionTurns(entries, 1, <<>>), 1, signals, filename)

CountType(entries, type) ==
    Cardinality({k \in 1..Len(entries) : entries[k].type = type})
CountSource(ps, source) ==
    Cardinality({k \in 1..Len(ps) : ps[k].source = source})

\* the loop of mineChatsForQA over the sorted files, from file k on
RECURSIVE MineFiles(_, _)
MineFiles(files, k) ==
    IF k > Len(files) THEN [pairs |-> <<>>, turns |-> 0]
    ELSE LET entries == files[k].entries
             rest == MineFiles(files, k + 1)
         IN [pairs |-> extractPairsFromSession(entries, detectSignals(entries),
                                               files[k].name) \o rest.pairs,
             turns |-> CountType(entries, "turn") + rest.turns]

\* mineChatsForQA(), on the files of the logs directory
mineChatsForQA ==
    LET all == MineFiles(logsDir, 1)
    IN [pairs |-> all.pairs, sessionsScanned |-> Len(logsDir),
        turnsScanned |-> all.turns,
        corrections |-> CountSource(all.pairs, "chat_correction"),
        satisfied |-> CountSource(all.pairs, "chat_satisfied"),
        regular |-> CountSource(all.pairs, "chat_qa")]

\* String(n).padStart(3, "0")
Pad3(n) == IF n < 10 THEN "00" \o ToString(n)
           ELSE IF n < 100 THEN "0" \o ToString(n) ELSE ToString(n)

\* mined.filter((m) => !existingQuestions.has(normalize(m.question)))
RECURSIVE Unique(_, _)
Unique(ms, existingQuestions) ==
    IF ms = <<>> THEN <<>>
    ELSE IF normalize(Head(ms).question) \in existingQuestions
         THEN Unique(Tail(ms), existingQuestions)
         ELSE <<Head(ms)>> \o Unique(Tail(ms), existingQuestions)

ChatPairId(n) == "chat-" \o Pad3(n)

\* minedToQAPairs(ms, existingPairs); existingPairs is None when undefined
minedToQAPairs(ms, existingPairs) ==
    LET existing == IF existingPairs = None THEN <<>> ELSE existingPairs[1]
        existingQuestions == {normalize(existing[k].question) : k \in 1..Len(existing)}
        unique == Unique(ms, existingQuestions)
    IN [n \in 1..Len(unique) |->
           LET m == unique[n]
           IN [id |-> ChatPairId(n),
               question |-> m.question,
               expectedAnswer |->
                   IF m.source = "chat_correction" /\ m.correctedAnswer # None
                      /\ m.correctedAnswer[1] # ""
                   THEN m.correctedAnswer[1] ELSE m.answer,
               source |-> "chat session: " \o m.sessionFile,
               dimensions |-> [questionType |-> "factual", difficulty |-> "surface",
                               sourceFormat |-> "cross-format", edgeCase |-> Undef],
               status |-> "keep"]]

\* the file a ChatSession leaves behind: the user sends msgs, each is
\* answered, then end() logs the signals and the end of the session
SessionTurnsOf(msgs) ==
    [k \in 1..(2 * Len(msgs)) |->
        IF k % 2 = 1 THEN ChatTurn((k + 1) \div 2, "user", msgs[(k + 1) \div 2])
        ELSE ChatTurn(k \div 2, "assistant", "$350 per hour")]
SessionFile(name, msgs) ==
    [name |-> name,
     entries |-> <<logStart>> \o TurnEntries(SessionTurnsOf(msgs))
                 \o SignalLines(detectSignals(TurnEntries(SessionTurnsOf(msgs))))
                 \o <<logEnd(Len(msgs))>>]

\* a second session of the logs directory
OtherSession == <<"What is the engine reserve?", "Thanks, that's helpful">>

\* the benchmark stores the miner runs against: none, one version, two versions
ReserveBenchmark == <<GivenPair("qa-001", "what is the ENGINE reserve")>>
LesseeBenchmark ==
    <<GivenPair("qa-001", "Who is the lessee?"), GivenPair("qa-002", "What type is MSN-4521")>>
ExistingStores ==
    {<<>>, <<ReserveBenchmark>>, <<LesseeBenchmark>>, <<LesseeBenchmark, ReserveBenchmark>>}

\* existing?.pairs of loadVersionedBenchmark()
ExistingPairs ==
    IF loadVersionedBenchmark(Undef) = None THEN None
    ELSE Some(loadVersionedBenchmark(Undef)[1].pairs)

MinerFrame == BaseFrame /\ UNCHANGED <<improverVars, historyVars, verdictVars, chatVars>>

QaRun(result, existing, qaPairs, error) ==
    [mined |-> result.pairs, sessionsScanned |-> result.sessionsScanned,
     corrections |-> result.corrections, satisfied |-> result.satisfied,
     regular |-> result.regular,
     existing |-> existing, pairs |-> qaPairs, error |-> error]

\* loop generate-qa --from-chats
GenerateQAFromChats ==
    /\ Len(qaRuns) < MaxQaRuns
    /\ \E result \in {mineChatsForQA} :
          IF result.sessionsScanned = 0 \/ Len(result.pairs) = 0
          THEN /\ qaRuns' = Append(qaRuns, QaRun(result, None, None, None))
               /\ UNCHANGED draft
          ELSE \E existing \in {ExistingPairs} :
               \E qaPairs \in {minedToQAPairs(result.pairs, existing)} :
                  IF Len(qaPairs) = 0
                  THEN /\ qaRuns' = Append(qaRuns,
                                           QaRun(result, existing, Some(qaPairs), None))
                       /\ UNCHANGED draft
                  ELSE \E io \in IoOutcomes :
                          IF io = "throw"
                          THEN /\ qaRuns' = Append(qaRuns,
                                       QaRun(result, existing, Some(qaPairs),
                                             Some(IoError)))
                               /\ UNCHANGED draft
                          ELSE /\ qaRuns' = Append(qaRuns,
                                       QaRun(result, existing, Some(qaPairs), None))
                               /\ draft' = Some(qaPairs)
    /\ UNCHANGED <<logsDir, mined, converted>>
    /\ MinerFrame

\* a benchmark store holding the given versions, everything else at rest
StoreHolds(files) ==
    /\ bmVersions = files
    /\ manifest = ManifestOf(files, 1)
    /\ latestFile = IF files = <<>> THEN None ELSE Some(files[Len(files)])
    /\ csvFiles = <<>> /\ storeCalls = 0 /\ imports = None /\ saved = <<>>
    /\ corpusDocs = 1 /\ optVersion = Undef /\ optLimit = None
    /\ pc = "idle" /\ pairs = <<>> /\ i = 0 /\ actual = Null /\ meta = None
    /\ results = <<>> /\ runLog = <<>> /\ progress = <<>> /\ ret = None
    /\ err = Null /\ loaded = [called |-> FALSE, value |-> None]
    /\ HistoryIdle /\ VerdictIdle /\ ChatIdle
    /\ run = <<>>
    /\ AnalyzerIdle
    /\ calls = <<>>
    /\ JudgeIdle
    /\ ImproverIdle

\* the logs directory holds no file, one session, or that session and another
InitMiner ==
    /\ \E files \in ExistingStores : StoreHolds(files)
    /\ \/ logsDir = <<>>
       \/ \E n \in 1..MaxExchanges : \E msgs \in [1..n -> Messages] :
             \/ logsDir = <<SessionFile("s1.jsonl", msgs)>>
             \/ logsDir = <<SessionFile("s1.jsonl", msgs),
                            SessionFile("s2.jsonl", OtherSession)>>
    /\ draft = None /\ qaRuns = <<>> /\ mined = <<>> /\ converted = None

NextMiner == GenerateQAFromChats

SpecMiner == InitMiner /\ [][NextMiner]_vars

\* mined pairs as callers of minedToQAPairs build them
GivenMined ==
    {MinedPair("What type is MSN 4521?", "B777-300ER", "chat_qa", "s1.jsonl", 1,
               <<1, 2>>, None),
     MinedPair("Who is the lessee?", "Emirates", "chat_satisfied", "s1.jsonl", 3,
               <<7, 10>>, None),
     MinedPair("What is the engine reserve?", "$350/FH", "chat_correction", "s1.jsonl", 1,
               <<9, 10>>, Some("$420/FH per the amendment")),
     MinedPair("Who pays the reserve?", "The lessor", "chat_correction", "s2.jsonl", 1,
               <<9, 10>>, Some("")),
     MinedPair("When does the lease end?", "2030", "chat_correction", "s2.jsonl", 3,
               <<9, 10>>, None)}

\* minedToQAPairs(mined, existing?.pairs)
MinedToQAPairsCall ==
    /\ converted = None
    /\ converted' = Some(minedToQAPairs(mined, ExistingPairs))
    /\ UNCHANGED <<logsDir, draft, qaRuns, mined>>
    /\ MinerFrame

InitMined ==
    /\ \E files \in ExistingStores : StoreHolds(files)
    /\ \E n \in 0..MaxMined : \E ms \in [1..n -> GivenMined] : mined = ms
    /\ logsDir = <<>> /\ draft = None /\ qaRuns = <<>> /\ converted = None

NextMined == MinedToQAPairsCall

SpecMined == InitMined /\ [][NextMined]_vars

\* what a send is answered with: a text, no text at all, or prompt() throws
Replies == {Some("$350 per hour"), Some(""), None}

MinedMessages ==
    {"What is the engine reserve?", PaddedQuestion,
     "No, that's incorrect. Actually it should be $5", "Thanks, that's helpful"}

\* the turns a ChatSession logs for the sends msgs, answered by replies
RECURSIVE ExchangeTurns(_, _, _)
ExchangeTurns(msgs, replies, k) ==
    IF k > Len(msgs) THEN <<>>
    ELSE <<ChatTurn(k, "user", msgs[k])>>
         \o (IF replies[k] = None THEN <<>>
             ELSE <<ChatTurn(k, "assistant", replies[k][1])>>)
         \o ExchangeTurns(msgs, replies, k + 1)

LoggedSession(name, msgs, replies) ==
    LET lines == TurnEntries(ExchangeTurns(msgs, replies, 1))
    IN [name |-> name,
        entries |-> <<logStart>> \o lines \o SignalLines(detectSignals(lines))
                    \o <<logEnd(Len(msgs))>>]

\* the logs directory holds one session of up to MaxExchanges sends, or that
\* session and another; no benchmark exists
InitExtract ==
    /\ StoreHolds(<<>>)
    /\ \E n \in 1..MaxExchanges :
       \E msgs \in [1..n -> MinedMessages] : \E replies \in [1..n -> Replies] :
          \/ logsDir = <<LoggedSession("s1.jsonl", msgs, replies)>>
          \/ logsDir = <<LoggedSession("s1.jsonl", msgs, replies),
                         SessionFile("s2.jsonl", OtherSession)>>
    /\ draft = None /\ qaRuns = <<>> /\ mined = <<>> /\ converted = None

SpecExtract == InitExtract /\ [][NextMiner]_vars

\* ------------------------------------------------------------------------
\* Properties of the eval runner and its log
\* ------------------------------------------------------------------------
SummaryConsistent(r) ==
    LET s == r.summary
    IN /\ s.pass + s.fail = s.total
       /\ s.total = Len(r.results)
       /\ ~RatLess(s.accuracy, <<0, 1>>) /\ ~RatLess(<<1, 1>>, s.accuracy)
       /\ IF s.total = 0 THEN s.accuracy = <<0, 1>>
          ELSE RatEq(s.accuracy, <<s.pass, s.total>>)

\* C1: every EvalRun returned by runEval or by loadEvalRun (complete or partial
\* log) has pass + fail = total = len(results), 0 <= accuracy <= 1 and
\* accuracy = pass / total (0 when total = 0).
C1_SummaryConsistency ==
    /\ ret # None => SummaryConsistent(ret[1])
    /\ (loaded.called /\ loaded.value # None) => SummaryConsistent(loaded.value[1])

\* the pairs whose loop iteration has ended
PairsDone == IF pc \in {"start", "failed"} THEN 0 ELSE i - 1

ResultIds(rs) == [k \in 1..Len(rs) |-> rs[k].id]
PairIds(n) == [k \in 1..n |-> pairs[k].id]

FailingEntryFor(pair, message) ==
    [id |-> pair.id, question |-> pair.question,
     expectedAnswer |-> pair.expectedAnswer, actualAnswer |-> "",
     pass |-> FALSE, reason |-> "Error: " \o message,
     dimensions |-> [d \in DimensionSet |-> pair.dimensions[d]]]

IsMetaLine(rec) == HasType(rec, "meta")
IsSummaryLine(rec) == HasType(rec, "summary")
IsEntryLine(rec) == "type" \notin DOMAIN rec

\* index in pairs of the pair a result line belongs to
PairIndexOf(rec) == CHOOSE k \in 1..Len(pairs) : pairs[k].id = rec.id

\* C3: in the log the meta record is the first record and is there before any
\* pair is answered; the result record of pair i is there, after the records
\* of the pairs before it, once pair i is graded and before pair i+1 is
\* started; the summary record is the last record, after every result record.
C3_LogOrder ==
    /\ pc \in {"answer", "grade", "summary", "done"} => runLog # <<>>
    /\ runLog # <<>> =>
        /\ IsMetaLine(runLog[1])
        /\ \A n \in 2..Len(runLog) : ~IsMetaLine(runLog[n])
        /\ \A n \in 1..Len(runLog) :
              IsSummaryLine(runLog[n]) => (n = Len(runLog) /\ pc = "done")
        /\ \A n \in 2..Len(runLog) :
              IsEntryLine(runLog[n]) =>
                 /\ \E k \in 1..Len(pairs) : pairs[k].id = runLog[n].id
                 /\ \E m \in 1..Len(results) : JsonEntry(results[m]) = runLog[n]
                 /\ \A m \in 2..n :
                       IsEntryLine(runLog[m]) => PairIndexOf(runLog[m]) <= PairIndexOf(runLog[n])
        /\ \A k \in 1..Len(pairs) :
              /\ (k < i /\ pc \in {"answer", "grade", "summary", "done"}) =>
                    \E n \in 2..Len(runLog) : IsEntryLine(runLog[n]) /\ runLog[n].id = pairs[k].id
              /\ (k > i \/ (k = i /\ pc \in {"answer", "grade"})) =>
                    \A n \in 2..Len(runLog) : IsEntryLine(runLog[n]) => runLog[n].id # pairs[k].id
    /\ pc = "done" => IsSummaryLine(runLog[Len(runLog)])

C3_Witness ==
    /\ pc = "done" /\ Len(pairs) = 2 /\ Len(runLog) = 4
    /\ IsMetaLine(runLog[1]) /\ IsSummaryLine(runLog[4])
    /\ runLog[2].id = pairs[1].id /\ runLog[3].id = pairs[2].id

\* C4: at every point after the meta record is written, loadEvalRun returns a
\* run whose results are exactly the pairs whose iteration has ended, in order,
\* with a summary computed from those results.
C4_PartialRunReadable ==
    runLog # <<>> =>
        /\ loadEvalRun # None
        /\ LET r == loadEvalRun[1]
               n == Len(r.results)
           IN /\ n <= Len(pairs) /\ ResultIds(r.results) = PairIds(n)
              /\ pc \in {"answer", "grade", "summary", "done"} => n = PairsDone
              /\ pc \in {"killed", "aborted"} => n \in {PairsDone, PairsDone + 1}
              /\ r.summary = RunSummary(r.results)

\* C5: runEval has exactly one result entry per evaluated pair, in benchmark
\* order; on completion len(results) = meta.pairCount and the log holds that
\* many result records.
C5_OneResultPerPair ==
    /\ pc \in {"answer", "grade", "summary", "done"} =>
          ResultIds(results) = PairIds(PairsDone)
    /\ pc = "done" =>
          /\ Len(results) = meta[1].pairCount
          /\ Len(ResultLines(runLog)) = meta[1].pairCount

\* ------------------------------------------------------------------------
\* Properties of the dimension analyzer
\* ------------------------------------------------------------------------
\* the slice a result belongs to: its tag, or "unknown" when it has none
SliceOf(r, d) ==
    IF d \notin DOMAIN r.dimensions THEN "unknown"
    ELSE IF r.dimensions[d] = Undef \/ r.dimensions[d] = "" THEN "unknown"
         ELSE r.dimensions[d]

Members(d, v) == {k \in 1..Len(run) : SliceOf(run[k], d) = v}

RECURSIVE SumTotals(_)
SumTotals(entries) ==
    IF entries = <<>> THEN 0 ELSE Head(entries).slice.total + SumTotals(Tail(entries))

\* C7: for each of the four dimensions every result is in exactly one slice
\* (results without a tag in "unknown"), the slice totals sum to overall.total,
\* and in every slice pass + fail = total and len(failures) = fail.
C7_SlicesPartition ==
    analysis # None =>
        LET a == analysis[1]
        IN /\ a.overall.total = Len(run)
           /\ \A d \in DimensionSet :
                LET sl == a.by[d]
                IN /\ \A m, n \in 1..Len(sl) : m # n => sl[m].value # sl[n].value
                   /\ \A k \in 1..Len(run) :
                         \E n \in 1..Len(sl) : sl[n].value = SliceOf(run[k], d)
                   /\ \A n \in 1..Len(sl) :
                         /\ sl[n].slice.total = Cardinality(Members(d, sl[n].value))
                         /\ sl[n].slice.pass + sl[n].slice.fail = sl[n].slice.total
                         /\ Len(sl[n].slice.failures) = sl[n].slice.fail
                         /\ sl[n].slice.fail =
                               Cardinality({k \in Members(d, sl[n].value) : ~run[k].pass})
                   /\ SumTotals(sl) = a.overall.total

C7_Witness ==
    /\ analysis # None /\ Len(run) = 3
    /\ \E n, m \in 1..Len(analysis[1].by["questionType"]) :
          /\ analysis[1].by["questionType"][n].value = "unknown"
          /\ analysis[1].by["questionType"][n].slice.total = 2
          /\ analysis[1].by["questionType"][m].value = "factual"
          /\ analysis[1].by["questionType"][m].slice.fail = 1

\* the slices findWorst may report
Candidates(a) ==
    {c \in DimensionSet \X (1..MaxResults + 1) :
        /\ c[2] <= Len(a.by[c[1]])
        /\ a.by[c[1]][c[2]].slice.total > 0
        /\ a.by[c[1]][c[2]].value # "unknown"}

CandSlice(a, c) == a.by[c[1]][c[2]].slice

\* ids of the failing results of the run that carry tag v in dimension d
RECURSIVE FailingIds(_, _, _)
FailingIds(rs, d, v) ==
    IF rs = <<>> THEN <<>>
    ELSE IF ~Head(rs).pass /\ SliceOf(Head(rs), d) = v
         THEN <<Head(rs).id>> \o FailingIds(Tail(rs), d, v)
         ELSE FailingIds(Tail(rs), d, v)

\* C8: the reported WorstDimension has the minimum accuracy among the slices of
\* all four dimensions with total > 0 and value other than "unknown", among
\* those with that accuracy it has the most failures, and its failures are
\* exactly the failing results of its slice.
C8_WorstIsMinimum ==
    (analysis # None /\ analysis[1].worst # None) =>
        LET a == analysis[1]
            w == a.worst[1]
        IN /\ \E c \in Candidates(a) :
                 /\ c[1] = w.dimension /\ a.by[c[1]][c[2]].value = w.value
                 /\ CandSlice(a, c).accuracy = w.accuracy
                 /\ CandSlice(a, c).total = w.total
                 /\ CandSlice(a, c).failures = w.failures
           /\ \A c \in Candidates(a) :
                 /\ ~RatLess(CandSlice(a, c).accuracy, w.accuracy)
                 /\ RatEq(CandSlice(a, c).accuracy, w.accuracy) =>
                       Len(CandSlice(a, c).failures) <= Len(w.failures)
           /\ [n \in 1..Len(w.failures) |-> w.failures[n].id]
                 = FailingIds(run, w.dimension, w.value)

\* a tie in accuracy that the number of failures decides
C8_Witness ==
    /\ analysis # None /\ analysis[1].worst # None
    /\ analysis[1].worst[1].dimension = "difficulty"
    /\ Len(analysis[1].worst[1].failures) = 2
    /\ \E c \in Candidates(analysis[1]) :
          /\ c[1] = "questionType"
          /\ RatEq(CandSlice(analysis[1], c).accuracy, analysis[1].worst[1].accuracy)
          /\ CandSlice(analysis[1], c).fail = 1

AllPass == \A k \in 1..Len(run) : run[k].pass
AllFail == \A k \in 1..Len(run) : ~run[k].pass

WorstAtExtremes ==
    /\ analysis[1].worst # None
    /\ AllPass => RatEq(analysis[1].worst[1].accuracy, <<1, 1>>)
    /\ AllFail => /\ RatEq(analysis[1].worst[1].accuracy, <<0, 1>>)
                  /\ analysis[1].worst[1].failures # <<>>

\* C9 as stated: for every non-empty run a non-null WorstDimension is reported,
\* with accuracy 1 when every result passes and with accuracy 0 and a non-empty
\* failure set when every result fails.
C9_WorstAlwaysReported ==
    (analysis # None /\ run # <<>>) => WorstAtExtremes

\* some result carries, in some dimension, a tag other than "unknown"
HasTaggedResult ==
    \E k \in 1..Len(run) : \E d \in DimensionSet : SliceOf(run[k], d) # "unknown"

\* C9 (amended): for every run in which some result carries a dimension tag
\* other than "unknown", a non-null WorstDimension is reported, with accuracy 1
\* when every result passes and with accuracy 0 and a non-empty failure set
\* when every result fails.
C9_WorstReportedWhenTagged ==
    (analysis # None /\ HasTaggedResult) => WorstAtExtremes

C9_Witness ==
    /\ analysis # None /\ Len(run) = 2 /\ AllPass /\ HasTaggedResult
    /\ analysis[1].worst # None
    /\ analysis[1].worst[1].accuracy = <<2, 2>>

\* ------------------------------------------------------------------------
\* Properties of the judge trainer
\* ------------------------------------------------------------------------
IdsOf(rs) == {rs[n].id : n \in 1..Len(rs)}

\* C10: every JudgeResult has trainCount + testCount = len(run.results),
\* testCount >= 1, len(testDetails) = testCount and agreement = (number of
\* agreeing test details) / testCount in [0, 1]; the train and test sets are
\* disjoint and together hold every result exactly once.
C10_JudgeSplit ==
    jret # None =>
        LET j == jret[1]
            agreeing == Cardinality({n \in 1..Len(j.testDetails) : j.testDetails[n].agree})
        IN /\ j.trainCount + j.testCount = Len(run)
           /\ j.testCount >= 1
           /\ Len(j.testDetails) = j.testCount
           /\ RatEq(j.agreement, <<agreeing, j.testCount>>)
           /\ ~RatLess(j.agreement, <<0, 1>>) /\ ~RatLess(<<1, 1>>, j.agreement)
           /\ j.trainCount = Len(trainSet) /\ j.testCount = Len(testSet)
           /\ IdsOf(trainSet) \cap IdsOf(testSet) = {}
           /\ IdsOf(trainSet) \cup IdsOf(testSet) = IdsOf(run)
           /\ Cardinality(IdsOf(trainSet)) = Len(trainSet)
           /\ Cardinality(IdsOf(testSet)) = Len(testSet)
           /\ \A n \in 1..Len(j.testDetails) :
                 /\ j.testDetails[n].id = testSet[n].id
                 /\ j.testDetails[n].agree =
                       (j.testDetails[n].humanLabel = j.testDetails[n].judgeLabel)

C10_Witness ==
    /\ jret # None
    /\ jret[1].trainCount = 4 /\ jret[1].testCount = 2
    /\ jret[1].agreement = <<1, 2>>
    /\ judgeFile = Some(jret[1].judgePrompt)

\* ------------------------------------------------------------------------
\* Properties of the fatal preconditions
\* ------------------------------------------------------------------------
VersionUnresolvable ==
    \/ bmVersions = <<>>
    \/ (optVersion # Undef /\ \A v \in 1..Len(bmVersions) : VersionName(v) # optVersion)

TooFewOrOneSided ==
    \/ Len(run) < minExamples
    \/ \A k \in 1..Len(run) : ~run[k].pass
    \/ \A k \in 1..Len(run) : run[k].pass

\* C6: every fatal precondition failure is raised before any side effect.
\* runEval called with an unresolvable benchmark version or on an empty corpus
\* never creates a run log (and reports no progress); createJudge called with
\* fewer than minExamples results, with no passing result or with no failing
\* result never makes an external call and never writes the judge artifact;
\* suggestImprovement called on a run without a failing result never makes an
\* external call.  In each case the operation ends by throwing and returns
\* nothing.
C6_FatalBeforeSideEffects ==
    /\ (pc # "idle" /\ (VersionUnresolvable \/ corpusDocs = 0)) =>
          /\ runLog = <<>> /\ progress = <<>> /\ ret = None
          /\ pc \in {"start", "failed"}
    /\ (jpc # "idle" /\ TooFewOrOneSided) =>
          /\ calls = <<>> /\ judgeFile = None /\ jret = None
          /\ jpc \in {"start", "failed"}
    /\ (ipc # "idle" /\ \A k \in 1..Len(run) : run[k].pass) =>
          /\ calls = <<>> /\ iret = None
          /\ ipc \in {"start", "failed"}

\* runEval has thrown for an empty corpus although the benchmark resolved to a
\* non-empty pair list, and loading the run afterwards finds no log
C6_Witness ==
    /\ pc = "failed" /\ err = "EmptyCorpus"
    /\ bmVersions # <<>> /\ Len(bmVersions[1]) > 0
    /\ loaded.called /\ loaded.value = None

\* ------------------------------------------------------------------------
\* Properties of the prompt improver
\* ------------------------------------------------------------------------
\* C11: suggestImprovement fails with the no-failures error whenever the run
\* has zero failing results (an all-pass run and an empty run included): once
\* it has taken its first step on such a run it has thrown that error, and it
\* returns nothing.
C11_NoFailuresRejected ==
    (ipc \notin {"idle", "start"} /\ \A k \in 1..Len(run) : run[k].pass) =>
        /\ ipc = "failed" /\ ierr = "NoFailures" /\ iret = None

\* an all-pass run of two tagged results has been rejected
C11_Witness ==
    /\ ipc = "failed" /\ ierr = "NoFailures"
    /\ Len(run) = 2 /\ run[1].pass /\ run[2].pass
    /\ "questionType" \in DOMAIN run[1].dimensions

\* C12 as stated: every Improvement returned by suggestImprovement has a
\* proposedDelta strictly shorter than the current prompt it was proposed for.
C12_DeltaShorterThanPrompt ==
    iret # None => Len(iret[1].proposedDelta) < Len(currentPrompt)

\* C13: suggestImprovement leaves system.md and the improvement ledger as they
\* are, whether it returns or throws: every step that changes either of them
\* is a call of applyImprovement.
C13_SuggestLeavesStateUnchanged ==
    [][(promptFile' # promptFile \/ ledger' # ledger) => applies' # applies]_vars

\* suggestImprovement has returned an Improvement after four external calls or
\* more, and the custom system.md and the empty ledger are as they were
C13_Witness ==
    /\ ipc = "done" /\ iret # None /\ Len(calls) >= 4
    /\ applies = <<>> /\ promptFile = Some(CustomPrompt) /\ ledger = <<>>

\* C14 as stated: a second successful applyImprovement with the same
\* Improvement leaves system.md equal to what it was after the first one.
C14_ApplyIdempotent ==
    \A m, n \in 1..Len(applies) :
        (m < n /\ applies[m].outcome = "ok" /\ applies[n].outcome = "ok") =>
            applies[n].file = applies[m].file

\* positions of the successful calls among the first k calls of applyImprovement
RECURSIVE OkTimes(_)
OkTimes(k) ==
    IF k = 0 THEN <<>>
    ELSE IF applies[k].outcome = "ok" THEN Append(OkTimes(k - 1), k)
         ELSE OkTimes(k - 1)

\* C15: each successful applyImprovement appends exactly one entry with
\* applied = true to the ledger and changes no earlier entry: at every moment
\* loadImprovements returns one entry per successful call so far, in call
\* order, each carrying the delta of the applied Improvement.
C15_LedgerAppendOnly ==
    LET ok == OkTimes(Len(applies))
        logs == loadImprovements
    IN /\ Len(logs) = Len(ok)
       /\ \A n \in 1..Len(logs) :
             /\ logs[n].applied = TRUE
             /\ logs[n].timestamp = ok[n]
             /\ logs[n].runId = AppliedRunId
             /\ logs[n].delta = iret[1].proposedDelta
             /\ logs[n].regressions = Len(iret[1].regressions)

\* two successful calls, two entries
C15_Witness ==
    /\ Len(applies) = 2 /\ applies[1].outcome = "ok" /\ applies[2].outcome = "ok"
    /\ Len(loadImprovements) = 2
    /\ loadImprovements[1].timestamp = 1 /\ loadImprovements[2].timestamp = 2

\* ------------------------------------------------------------------------
\* Properties of the benchmark store
\* ------------------------------------------------------------------------
\* C16: no step changes the file of a version that is in the manifest, and
\* every save that returns leaves manifest.latest equal to the id of the
\* version it saved, which is "v" followed by the highest number in the
\* manifest before the save plus one.
C16_SaveKeepsVersions ==
    [][/\ \A n \in 1..Len(manifest.versions) :
             LET v == VersionNumber(manifest.versions[n].version)
             IN v <= Len(bmVersions') /\ bmVersions'[v] = bmVersions[v]
       /\ saved' # saved =>
             /\ manifest'.latest = saved'[Len(saved')].version
             /\ manifest'.latest = VersionName(MaxVersionNumber(manifest.versions) + 1)
             /\ Len(manifest'.versions) = Len(manifest.versions) + 1]_vars

\* two versions of different content have been saved and the file of the
\* first is what the first save wrote
C16_Witness ==
    /\ Len(saved) = 2 /\ saved[1].pairs # saved[2].pairs
    /\ manifest.latest = "v2"
    /\ bmVersions[1] = JsonPairs(saved[1].pairs)

\* two pair lists read the same in every field
SamePairs(ps, qs) ==
    /\ Len(ps) = Len(qs)
    /\ \A k \in 1..Len(ps) :
          /\ ps[k].id = qs[k].id
          /\ ps[k].question = qs[k].question
          /\ ps[k].expectedAnswer = qs[k].expectedAnswer
          /\ \A d \in DimensionSet : Tag(ps[k].dimensions, d) = Tag(qs[k].dimensions, d)

SavedNames == {saved[n].version : n \in 1..Len(saved)}

\* C17: loadVersionedBenchmark(v) returns the pairs given to the save that
\* created v, whatever was saved afterwards; without an argument it returns
\* the version saved last; for an id that no save created it returns null.
C17_LoadReturnsSavedPairs ==
    /\ \A n \in 1..Len(saved) :
          LET b == loadVersionedBenchmark(saved[n].version)
          IN /\ b # None
             /\ b[1].version = saved[n].version
             /\ SamePairs(b[1].pairs, saved[n].pairs)
    /\ LET b == loadVersionedBenchmark(Undef)
       IN IF saved = <<>> THEN b = None
          ELSE /\ b # None
               /\ b[1].version = saved[Len(saved)].version
               /\ SamePairs(b[1].pairs, saved[Len(saved)].pairs)
    /\ \A v \in ({"v0"} \cup {VersionName(n) : n \in 1..(MaxStoreCalls + 1)}) \ SavedNames :
          loadVersionedBenchmark(v) = None

\* two versions of different content were saved, the first holding a pair
\* without an edge case, and the first is still loaded as it was given
C17_Witness ==
    /\ Len(saved) = 2 /\ ~SamePairs(saved[1].pairs, saved[2].pairs)
    /\ Len(saved[1].pairs) > 0 /\ saved[1].pairs[1].dimensions.edgeCase = Undef
    /\ loadVersionedBenchmark("v1") # None
    /\ SamePairs(loadVersionedBenchmark("v1")[1].pairs, saved[1].pairs)
    /\ loadVersionedBenchmark("v3") = None

\* the ids of a pair list are qa-001, qa-002, ... in pair order
IdsSequential(ps) ==
    /\ \A k \in 1..Len(ps) : ps[k].id = PairId(k)
    /\ \A j, k \in 1..Len(ps) : j # k => ps[j].id # ps[k].id

\* C18 as stated: in every saved BenchmarkVersion the pair ids are unique and
\* sequential without gaps in pair order.
C18_SavedIdsSequential ==
    \A n \in 1..Len(saved) : IdsSequential(bmVersions[VersionNumber(saved[n].version)])

\* C18, amended: in every BenchmarkVersion that importQAFromCSV saved the pair
\* ids are unique and sequential without gaps in pair order.
C18_ImportedIdsSequential ==
    \A n \in 1..Len(saved) :
        saved[n].by = "importQAFromCSV" =>
            IdsSequential(bmVersions[VersionNumber(saved[n].version)])

\* an import has saved two pairs whose rows carried other ids
C18_Witness ==
    /\ imports # None /\ imports[1].result # None
    /\ imports[1].result[1].total = 2
    /\ csvFiles[imports[1].path].rows[1].id = "x9"
    /\ saved[Len(saved)].by = "importQAFromCSV"

\* the rows of the imported file that the claim calls discarded and invalid
RowIsDiscard(row) == RowStatus(row) = "discard"
RowIsInvalid(row) ==
    \/ TrimCell(row.question) = ""
    \/ TrimCell(row.source) = ""
    \/ TrimCell(row.expected_answer) = "" /\ TrimCell(row.edge_case) # "not_answerable"

\* C19: an import that returns has skipped every invalid row and every row
\* of status discard and imported every other row: total = kept + edited =
\* number of pairs of the version it created, which holds the other rows in
\* row order, and kept + edited + discarded + skipped = number of data rows.
C19_ImportCounts ==
    (imports # None /\ imports[1].result # None) =>
        LET m == imports[1]
            r == m.result[1]
            rows == csvFiles[m.path].rows
            taken == {k \in 1..Len(rows) : ~RowIsDiscard(rows[k]) /\ ~RowIsInvalid(rows[k])}
            file == bmVersions[VersionNumber(r.version)]
        IN /\ r.total = r.kept + r.edited
           /\ r.total = Len(file)
           /\ r.total = Cardinality(taken)
           /\ r.discarded = Cardinality({k \in 1..Len(rows) : RowIsDiscard(rows[k])})
           /\ m.skipped = Cardinality({k \in 1..Len(rows) :
                                          ~RowIsDiscard(rows[k]) /\ RowIsInvalid(rows[k])})
           /\ r.kept + r.edited + r.discarded + m.skipped = Len(rows)
           /\ m.rows = Len(rows)
           /\ \A k \in taken :
                 \E p \in 1..Len(file) :
                    /\ p = Cardinality({j \in taken : j <= k})
                    /\ file[p].question = TrimCell(rows[k].question)
           /\ r.version \in SavedNames

\* an import of a valid row and a row with an empty source has returned
C19_Witness ==
    /\ imports # None /\ imports[1].result # None
    /\ imports[1].rows = 2 /\ imports[1].skipped = 1
    /\ imports[1].result[1].total = 1
    /\ \E k \in 1..2 : TrimCell(csvFiles[imports[1].path].rows[k].source) = ""

\* ------------------------------------------------------------------------
\* Properties of the eval history
\* ------------------------------------------------------------------------
\* the finished runs among files that belong to the benchmark asked for
ReportedRuns(files, benchmarkName) ==
    {n \in 1..Len(files) :
        /\ files[n].summary # None
        /\ benchmarkName = Undef \/ files[n].benchmark = benchmarkName}

\* C20 as stated: loadHistory returns its entries in the order of the start
\* times of their runs, firstAccuracy is the accuracy of the earliest run,
\* lastAccuracy that of the latest, delta is lastAccuracy - firstAccuracy, and
\* all three are null when there are no entries.
C20_HistoryChronological ==
    history # None =>
        LET h == history[1].value
            dir == runFiles
            reported == ReportedRuns(dir, history[1].benchmarkName)
        IN /\ \A j, k \in 1..Len(h.entries) :
                 j < k => h.entries[j].timestamp < h.entries[k].timestamp
           /\ IF h.entries = <<>>
              THEN h.firstAccuracy = None /\ h.lastAccuracy = None /\ h.delta = None
              ELSE /\ \E n \in reported :
                         /\ \A m \in reported : dir[n].startTime <= dir[m].startTime
                         /\ h.firstAccuracy = dir[n].summary
                   /\ \E n \in reported :
                         /\ \A m \in reported : dir[m].startTime <= dir[n].startTime
                         /\ h.lastAccuracy = dir[n].summary
                   /\ h.delta = Some(RatMinus(h.lastAccuracy[1], h.firstAccuracy[1]))

\* the ledger entries that qualify for the note of a run started at runTime
Qualifying(improvements, runTime) ==
    {n \in 1..Len(improvements) :
        /\ improvements[n].applied = TRUE
        /\ improvements[n].timestamp < runTime
        /\ runTime - improvements[n].timestamp < DayLength}

HasLineBeginning(text, marker) ==
    \E p \in 1..Len(text) :
        /\ p = 1 \/ CharAt(text, p - 1) = "\n"
        /\ StandsAt(text, p, marker)

\* the text ends with the tail
EndsWith(text, tail) ==
    /\ Len(tail) <= Len(text)
    /\ SubSeq(text, Len(text) - Len(tail) + 1, Len(text)) = tail

\* C22 as stated: parsing a response yields a boolean verdict; a line
\* beginning "PASS:" or "FAIL:" decides it; with no such line the standalone
\* word "pass" or "fail" decides it; with neither the verdict is fail and the
\* reason carries the text truncated to 200 characters. Where both markers,
\* or both words, occur the statement leaves the verdict open.
C22_VerdictParsing ==
    parsed # None =>
        LET v == parsed[1].value
            text == TrimText(response)
            passLine == HasLineBeginning(text, "PASS:")
            failLine == HasLineBeginning(text, "FAIL:")
            passWord == HasWord(text, "pass")
            failWord == HasWord(text, "fail")
        IN /\ v.pass \in BOOLEAN
           /\ (passLine /\ ~failLine) => v.pass = TRUE
           /\ (failLine /\ ~passLine) => v.pass = FALSE
           /\ (~passLine /\ ~failLine /\ passWord /\ ~failWord) => v.pass = TRUE
           /\ (~passLine /\ ~failLine /\ failWord /\ ~passWord) => v.pass = FALSE
           /\ (~passLine /\ ~failLine /\ ~passWord /\ ~failWord) =>
                 /\ v.pass = FALSE
                 /\ EndsWith(v.reason, Slice(text, ReasonLimit))

\* ------------------------------------------------------------------------
\* Properties of the chat signals and the chat session
\* ------------------------------------------------------------------------
\* the signals of one kind that detectSignals gave for turn number n
SignalsFor(signals, kind, n) ==
    {k \in 1..Len(signals) : signals[k].signal = kind /\ signals[k].turn = n}

\* the rule of one dictionary: a user turn has a signal of the kind exactly
\* when some pattern matches it, then one only, with confidence
\* min(0.5 + 0.15 * k, 1.0) for k matching patterns, which lies in [0.65, 1.0]
OneSignalPerTurn(summary, kind, patterns) ==
    \A t \in 1..Len(summary.turns) :
        summary.turns[t].role = "user" =>
            LET k == CountMatches(patterns, summary.turns[t].content)
                found == SignalsFor(summary.signals, kind, summary.turns[t].turn)
            IN /\ Cardinality(found) <= 1
               /\ (found # {}) <=> (k >= 1)
               /\ \A s \in found :
                     LET c == summary.signals[s].confidence
                     IN /\ RatEq(c, IF 50 + 15 * k <= 100 THEN <<50 + 15 * k, 100>>
                                    ELSE <<1, 1>>)
                        /\ ~RatLess(c, <<65, 100>>)
                        /\ ~RatLess(<<1, 1>>, c)

\* C25: the signals end() reports hold at most one correction signal for each
\* user turn, exactly when at least one correction pattern matches the turn,
\* with confidence min(0.5 + 0.15 * k, 1.0) for k matching patterns, hence in
\* [0.65, 1.0]; the satisfaction signals follow the same rule
C25_OneSignalPerTurn ==
    ended # None =>
        /\ OneSignalPerTurn(ended[1], "correction", CORRECTION_PATTERNS)
        /\ OneSignalPerTurn(ended[1], "satisfaction", SATISFACTION_PATTERNS)

\* a session ended with a correction of one matching pattern, a correction of
\* more patterns than the cap admits, and a satisfaction signal
C25_Witness ==
    /\ ended # None
    /\ \E a, b, c \in 1..Len(ended[1].signals) :
          /\ ended[1].signals[a].signal = "correction"
          /\ ended[1].signals[a].confidence = <<65, 100>>
          /\ ended[1].signals[b].signal = "correction"
          /\ ended[1].signals[b].confidence = <<100, 100>>
          /\ \E t \in 1..Len(ended[1].turns) :
                /\ ended[1].turns[t].turn = ended[1].signals[b].turn
                /\ CountMatches(CORRECTION_PATTERNS, ended[1].turns[t].content) > 4
          /\ ended[1].signals[c].signal = "satisfaction"

\* C28: once end() has been called on a session, every later call of send()
\* is rejected with the error "Session has ended..." and leaves the turn
\* count, the turn list and the session log as they were
C28_SendAfterEndRejected ==
    [][(disposed /\ sendCalls' # sendCalls) =>
          /\ sent' # None
          /\ sent'[1].call = sendCalls'
          /\ sent'[1].error = Some(DisposedError)
          /\ SubSeq(DisposedError, 1, 17) = "Session has ended"
          /\ UNCHANGED <<turnCount, turns, sessionLog>>]_vars

\* a session with turns was ended and a later send() has been rejected
C28_Witness ==
    /\ disposed
    /\ turnCount > 0
    /\ ended # None /\ Len(ended[1].turns) > 0
    /\ sent # None
    /\ sent[1].error = Some(DisposedError)
    /\ sent[1].call = sendCalls

\* ------------------------------------------------------------------------
\* Properties of the chat miner
\* ------------------------------------------------------------------------
\* C23: when generate-qa --from-chats has mined the same transcripts against
\* the same existing benchmark before, the later run yields zero new pairs
C23_SecondMiningFindsNothing ==
    \A a, b \in 1..Len(qaRuns) :
        (/\ a < b
         /\ qaRuns[a].mined = qaRuns[b].mined
         /\ qaRuns[a].existing = qaRuns[b].existing
         /\ qaRuns[a].error = None)
        => (qaRuns[b].pairs = None \/ qaRuns[b].pairs = Some(<<>>))

\* the question in lower case with every character but a-z and 0-9 removed
NormalForm(s) == KeepChars(LowerText(s), AlnumChars)

\* the positions of the mined pairs whose normalized question no pair of the
\* existing benchmark has
NewPositions ==
    LET existing == IF ExistingPairs = None THEN <<>> ELSE ExistingPairs[1]
    IN {k \in 1..Len(mined) :
           \A e \in 1..Len(existing) :
               NormalForm(mined[k].question) # NormalForm(existing[e].question)}

\* the n-th smallest member of a set of positions
NthOf(S, n) == CHOOSE k \in S : Cardinality({j \in S : j < k}) = n - 1

\* C24: minedToQAPairs returns, in mined order and with the ids chat-001,
\* chat-002, ... without gaps, exactly the mined pairs whose normalized
\* question differs from that of every pair of the existing benchmark; a
\* correction pair that carries a corrected answer takes it as expected
\* answer, every other pair takes the assistant's answer
C24_MinedToQAPairs ==
    converted # None =>
        /\ Len(converted[1]) = Cardinality(NewPositions)
        /\ \A n \in 1..Len(converted[1]) :
              LET m == mined[NthOf(NewPositions, n)]
                  out == converted[1][n]
              IN /\ out.id = IF n < 10 THEN "chat-00" \o ToString(n)
                             ELSE "chat-0" \o ToString(n)
                 /\ out.question = m.question
                 /\ out.source = "chat session: " \o m.sessionFile
                 /\ out.expectedAnswer =
                       IF m.source = "chat_correction"
                          /\ m.correctedAnswer \notin {None, Some("")}
                       THEN m.correctedAnswer[1] ELSE m.answer

\* the first of two mined pairs is in the benchmark but for case and
\* punctuation, the second is a correction and comes out as chat-001 with
\* the corrected answer
C24_Witness ==
    /\ converted # None
    /\ Len(mined) = 2
    /\ NewPositions = {2}
    /\ mined[1].question \notin {ExistingPairs[1][e].question : e \in 1..Len(ExistingPairs[1])}
    /\ mined[2].source = "chat_correction"
    /\ mined[2].correctedAnswer \notin {None, Some("")}
    /\ Len(converted[1]) = 1
    /\ converted[1][1].id = "chat-001"
    /\ converted[1][1].expectedAnswer = mined[2].correctedAnswer[1]

\* ------------------------------------------------------------------------
\* Properties of runEval: stalled calls and the limit
\* ------------------------------------------------------------------------
SummaryAppended ==
    /\ pc = "done"
    /\ Len(runLog) > 0
    /\ runLog[Len(runLog)].type = "summary"

\* C26: when the answer call or the grading call of a pair stalls, a timeout
\* turns it into a failing result of the pair and the run goes on, so that it
\* eventually appends its summary record
C26_StalledPairTimesOut ==
    (pc \in {"answerStalled", "gradeStalled"}) ~> SummaryAppended

\* C27: with a limit, the run evaluates the first min(limit, n) pairs of the
\* version's n pairs, in benchmark order, and meta.pairCount is that number;
\* without a limit it evaluates all n
C27_LimitTruncates ==
    meta # None =>
        LET all == loadBenchmarkByName(optVersion)[1].pairs
            count == IF optLimit = None THEN Len(all) ELSE Min(optLimit[1], Len(all))
        IN /\ meta[1].pairCount = count
           /\ pairs = SubSeq(all, 1, count)

\* ------------------------------------------------------------------------
\* Properties of suggestImprovement: stage order and test results
\* ------------------------------------------------------------------------
StageSteps ==
    <<"Worst dimension", "Reflecting on failures...",
      "Proposing system prompt improvement...", "Testing on failed queries...",
      "Checking for regressions...">>

\* the calls of the Test stage and of the Regression-check stage
TestCalls == SelectSeq(calls, LAMBDA cl : cl.call = "queryWithPrompt")

\* C29: suggestImprovement runs Locate, Reflect, Curate, Test and
\* Regression-check in this order, each stage starting only after the one
\* before it has returned, and every question of Test and of Regression-check
\* is asked with one prompt: the prompt read before Curate, a blank line, and
\* the delta Curate returned
C29_StagesInOrder ==
    /\ steps = SubSeq(StageSteps, 1, Len(steps))
    /\ \A n \in 1..Len(calls) :
          /\ (calls[n].call = "reflect") <=> (n = 1)
          /\ (calls[n].call = "curate") <=> (n = 2)
          /\ n >= 3 => calls[n].call \in {"queryWithPrompt", "gradeAnswer"}
          /\ calls[n].call = "queryWithPrompt" =>
                calls[n].arg = calls[2].arg \o "\n\n" \o proposedDelta
    /\ Len(calls) >= 1 => worstDim # None
    /\ Len(calls) >= 2 => reflections \in ReflectionTexts /\ calls[2].arg = currentPrompt
    /\ Len(calls) >= 3 => proposedDelta \in Deltas
    /\ tphase = "pass" => Len(failTestResults) = Len(worstDim[1].failures)
    /\ passTestResults # <<>> => tphase = "pass"
    /\ Len(TestCalls) > Len(failTestResults) + Len(passTestResults) =>
          ipc \in {"testAnswer", "testGrade", "aborted"}

\* a suggestion with both stages of testing done, after system.md was
\* rewritten while it ran
C29_Witness ==
    /\ ipc = "done"
    /\ iret # None
    /\ failTestResults # <<>>
    /\ passTestResults # <<>>
    /\ Len(TestCalls) = Len(failTestResults) + Len(passTestResults)
    /\ getCurrentSystemPrompt # currentPrompt

PassingOf(rs) == Filter(rs, TRUE)

TestedIds(rs) == [n \in 1..Len(rs) |-> rs[n].id]

\* C30: passTestResults has min(5, number of passing results of the run)
\* entries, each for a pair the run passed; regressions are exactly its
\* failing entries; failTestResults has one entry per failure of the worst
\* dimension; afterAccuracy is the share of these that now pass, between 0
\* and 1; failuresAfter is failuresBefore minus the number that now pass
C30_TestResults ==
    iret # None =>
        LET imp == iret[1]
            worst == analyzeByDimension(run).worst[1]
            passing == PassingOf(run)
            nowPassing == Cardinality({n \in 1..Len(imp.failTestResults) :
                                          imp.failTestResults[n].pass})
            failing == SelectSeq(imp.passTestResults, LAMBDA r : ~r.pass)
        IN /\ Len(imp.passTestResults) = Min(5, Len(passing))
           /\ \A n \in 1..Len(imp.passTestResults) :
                 \E k \in 1..Len(passing) : passing[k].id = imp.passTestResults[n].id
           /\ Len(imp.regressions) = Len(failing)
           /\ \A n \in 1..Len(failing) :
                 imp.regressions[n] = [id |-> failing[n].id,
                                       question |-> failing[n].question,
                                       reason |-> failing[n].reason]
           /\ TestedIds(imp.failTestResults) = TestedIds(worst.failures)
           /\ imp.failuresBefore = Len(worst.failures)
           /\ imp.failuresBefore > 0
           /\ RatEq(imp.afterAccuracy, <<nowPassing, imp.failuresBefore>>)
           /\ ~RatLess(imp.afterAccuracy, <<0, 1>>)
           /\ ~RatLess(<<1, 1>>, imp.afterAccuracy)
           /\ imp.afterAccuracy[2] > 0
           /\ imp.failuresAfter = imp.failuresBefore - nowPassing

\* a suggestion for a run with more than five passing results, with a
\* regression among the five sampled and a failure that now passes
C30_Witness ==
    /\ iret # None
    /\ Len(PassingOf(run)) > 5
    /\ Len(iret[1].passTestResults) = 5
    /\ iret[1].regressions # <<>>
    /\ Len(iret[1].regressions) < 5
    /\ iret[1].failuresAfter = 0
    /\ iret[1].failuresBefore = 1

\* ------------------------------------------------------------------------
\* Properties of extractPairsFromSession
\* ------------------------------------------------------------------------
\* the turn lines of a session file; with content: only those that have one
TurnLinesOf(entries, withContent) ==
    SelectSeq(entries, LAMBDA e : e.type = "turn" /\ (withContent => e.content # ""))

\* the positions n of ts where a user turn with a question of at least ten
\* characters stands right before an assistant turn
QuestionPositions(ts, trimmed) ==
    SelectSeq([n \in 1..(Len(ts) - 1) |-> n],
              LAMBDA n : /\ ts[n].role = "user"
                         /\ ts[n + 1].role = "assistant"
                         /\ minerIsQuestion(ts[n].content)
                         /\ Len(IF trimmed THEN TrimText(ts[n].content)
                                ELSE ts[n].content) >= 10)

\* the source the next user turn after position n + 1 gives the pair at n
SourceAt(ts, n) ==
    LET later == {m \in (n + 2)..Len(ts) : ts[m].role = "user"}
        next == CHOOSE m \in later : \A x \in later : m <= x
    IN IF later # {} /\ CountMatches(CORRECTION_PATTERNS, ts[next].content) > 0
       THEN "chat_correction"
       ELSE IF later # {} /\ CountMatches(SATISFACTION_PATTERNS, ts[next].content) > 0
            THEN "chat_satisfied"
            ELSE "chat_qa"

SourceConfidence(source) ==
    IF source = "chat_correction" THEN <<9, 10>>
    ELSE IF source = "chat_satisfied" THEN <<7, 10>> ELSE <<4, 10>>

\* the mined pairs ps are those of the turns ts of the file
MinedAsStated(ps, ts, filename, trimmed) ==
    LET at == QuestionPositions(ts, trimmed)
    IN /\ Len(ps) = Len(at)
       /\ \A k \in 1..Len(at) :
             /\ ps[k].question = ts[at[k]].content
             /\ ps[k].answer = ts[at[k] + 1].content
             /\ ps[k].sessionFile = filename
             /\ ps[k].source = SourceAt(ts, at[k])
             /\ ps[k].confidence = SourceConfidence(ps[k].source)
             /\ (ps[k].correctedAnswer # None) <=> (ps[k].source = "chat_correction")

PairsOfFile(ps, filename) == SelectSeq(ps, LAMBDA m : m.sessionFile = filename)

CountsAddUp(qaRun) ==
    qaRun.corrections + qaRun.satisfied + qaRun.regular = Len(qaRun.mined)

\* C31 as stated: one MinedPair for each adjacent user-then-assistant pair of
\* logged turns whose user turn is question-shaped and at least 10 characters
\* long, none for any other turn, with source and confidence given by the
\* signal of the next user turn, and corrections + satisfied + regular is the
\* number of pairs
C31_MinedPairsAsStated ==
    \A r \in 1..Len(qaRuns) :
       /\ CountsAddUp(qaRuns[r])
       /\ \A f \in 1..Len(logsDir) :
             MinedAsStated(PairsOfFile(qaRuns[r].mined, logsDir[f].name),
                           TurnLinesOf(logsDir[f].entries, FALSE), logsDir[f].name, FALSE)

\* C31, amended: the same over the logged turns that have a content, the
\* length of the question being counted without its leading and trailing
\* whitespace
C31_MinedPairsOfContentTurns ==
    \A r \in 1..Len(qaRuns) :
       /\ CountsAddUp(qaRuns[r])
       /\ \A f \in 1..Len(logsDir) :
             MinedAsStated(PairsOfFile(qaRuns[r].mined, logsDir[f].name),
                           TurnLinesOf(logsDir[f].entries, TRUE), logsDir[f].name, TRUE)

\* a mining that found a correction pair and a satisfied pair, in a directory
\* with a question that got no text for an answer
C31_Witness ==
    /\ Len(qaRuns) > 0
    /\ qaRuns[1].corrections = 1
    /\ qaRuns[1].satisfied = 1
    /\ Len(logsDir) = 2
    /\ \E k \in 1..Len(logsDir[1].entries) :
          /\ logsDir[1].entries[k].type = "turn"
          /\ logsDir[1].entries[k].content = ""

\* ------------------------------------------------------------------------
\* Properties of reformulation detection
\* ------------------------------------------------------------------------
ReformulationLines(log, turn) ==
    SelectSeq(log, LAMBDA e : /\ e.type = "signal"
                              /\ e.signal = "reformulation"
                              /\ e.turn = Some(turn))

OverlapOf(a, b) == wordOverlap(significantWords(a.content), significantWords(b.content))

Reaches(overlap) == 5 * overlap[1] >= 2 * overlap[2]

ReformulatedFrom(prev, current) ==
    "User reformulated question from turn " \o ToString(prev.turn) \o " at turn "
      \o ToString(current.turn) \o " (overlap: "
      \o ToString(Percent(OverlapOf(prev, current))) \o "%)"

\* C32: the log of an ended session has at most one reformulation signal for
\* each question-shaped user turn, none unless one of the two question-shaped
\* turns before it reaches overlap 0.4, and when both of them do, the signal
\* names the closer one, the question right before it
C32_CloserQuestionPreferred ==
    ended # None =>
        LET qs == QuestionTurns(UserTurnsFrom(sessionLog, 1, <<>>))
        IN \A k \in 1..Len(qs) :
              LET lines == ReformulationLines(sessionLog, qs[k].turn)
                  before == {j \in Max(1, k - 2)..(k - 1) : Reaches(OverlapOf(qs[j], qs[k]))}
              IN /\ Len(lines) <= 1
                 /\ (Len(lines) = 1) <=> (before # {})
                 /\ before = {k - 2, k - 1} =>
                       lines[1].detail = ReformulatedFrom(qs[k - 1], qs[k])

\* ------------------------------------------------------------------------
\* Properties of the session log
\* ------------------------------------------------------------------------
TurnRecordsOf(log, role) ==
    SelectSeq(log, LAMBDA e : e.type = "turn" /\ e.role = role)

\* C33: the session_start record is the first record of a session's log; the
\* assistant turn of a send stands right after its user turn and has the same
\* turn number; there is no session_end record before end() is called; once
\* end() was called on a session with turns, the signal records stand after
\* all turn records and the last record is the session_end record, whose
\* totalTurns is the number of sends that were logged
C33_LogInOrder ==
    /\ sessionLog # <<>> => sessionLog[1].type = "session_start"
    /\ \A p \in 2..Len(sessionLog) :
          /\ sessionLog[p].type # "session_start"
          /\ (sessionLog[p].type = "turn" /\ sessionLog[p].role = "assistant") =>
                /\ sessionLog[p - 1].type = "turn"
                /\ sessionLog[p - 1].role = "user"
                /\ sessionLog[p - 1].turn = sessionLog[p].turn
    /\ ended = None => EndsLogged = 0
    /\ (ended # None /\ turnCount > 0) =>
          /\ \A p, q \in 1..Len(sessionLog) :
                (p < q /\ sessionLog[p].type = "signal") => sessionLog[q].type # "turn"
          /\ sessionLog[Len(sessionLog)].type = "session_end"
          /\ sessionLog[Len(sessionLog)].totalTurns = Len(TurnRecordsOf(sessionLog, "user"))

\* C39: whatever number of times end() is called, the log has at most one
\* session_end record, and it is the last record of the log
C39_OneSessionEnd ==
    /\ EndsLogged <= 1
    /\ \A p \in 1..Len(sessionLog) :
          sessionLog[p].type = "session_end" => p = Len(sessionLog)

\* ------------------------------------------------------------------------
\* Properties of the Locate stage
\* ------------------------------------------------------------------------
HasTaggedFailure(rs) ==
    \E k \in 1..Len(rs) :
       /\ ~rs[k].pass
       /\ \E d \in DimensionSet : SliceKey(rs[k], d) # "unknown"

\* C34 as stated: for a run with at least one failing result suggestImprovement
\* does not fail with the no-failures error, and the worst dimension it
\* locates has failures
C34_FailuresAreLocated ==
    ~HasNoFailures(run) =>
        /\ ierr # "NoFailures"
        /\ worstDim # None => Len(worstDim[1].failures) > 0

\* C34, amended: the same for a run with at least one failing result that
\* carries a tag in some dimension
C34_TaggedFailuresAreLocated ==
    HasTaggedFailure(run) =>
        /\ ierr # "NoFailures"
        /\ worstDim # None => Len(worstDim[1].failures) > 0
        /\ ipc \notin {"start", "idle"} => worstDim # None

\* past Locate on a run with a tagged failure, an untagged one beside it
C34_Witness ==
    /\ HasTaggedFailure(run)
    /\ \E k \in 1..Len(run) : ~run[k].pass /\ \A d \in DimensionSet : SliceKey(run[k], d) = "unknown"
    /\ ipc = "reflect"
    /\ worstDim # None
    /\ Len(worstDim[1].failures) = 1

\* ------------------------------------------------------------------------
\* Properties of the judge's training set
\* ------------------------------------------------------------------------
\* C35: the training set handed to generateJudgePrompt holds at least one
\* passing and at least one failing example, for every run that passes the
\* preconditions of createJudge and every order the shuffle leaves
C35_TrainSetHasBothClasses ==
    (\E n \in 1..Len(calls) : calls[n].call = "generateJudgePrompt") =>
        /\ \E n \in 1..Len(trainSet) : trainSet[n].pass
        /\ \E n \in 1..Len(trainSet) : ~trainSet[n].pass

\* ------------------------------------------------------------------------
\* Properties of applying a validated prompt
\* ------------------------------------------------------------------------
\* the prompt the Test and Regression-check stages of the Improvement ran with
ValidatedPrompt == currentPrompt \o "\n\n" \o proposedDelta

\* C36: whenever applyImprovement has written the effective prompt for an
\* Improvement, what it wrote is the augmented prompt that the Test and
\* Regression-check stages of that Improvement validated
C36_AppliedPromptIsValidated ==
    \A k \in 1..Len(applies) :
       applies[k].outcome = "ok" => applies[k].file = Some(ValidatedPrompt)

\* ------------------------------------------------------------------------
\* Properties of the prompt hash of a run
\* ------------------------------------------------------------------------
\* C37: while a pair of the run is being answered, the prompt hash of the
\* run's meta record is the hash of the system prompt of the session that
\* answers it, under every persona and with or without a custom prompt file
C37_HashOfAnsweringPrompt ==
    (pc = "answer" /\ meta # None) =>
        meta[1].systemPromptHash = PromptHash(QueryPairSystemPrompt)

\* ------------------------------------------------------------------------
\* Properties of the promoted pairs
\* ------------------------------------------------------------------------
NoRepeatedQuestion(qaPairs) ==
    \A a, b \in 1..Len(qaPairs) :
       a # b => normalize(qaPairs[a].question) # normalize(qaPairs[b].question)

\* C38: the list minedToQAPairs returns has no two pairs with the same
\* normalized question, also when the sessions hold a question several times
C38_NoRepeatedQuestion ==
    \A r \in 1..Len(qaRuns) :
       qaRuns[r].pairs # None => NoRepeatedQuestion(qaRuns[r].pairs[1])

\* ------------------------------------------------------------------------
\* Properties of responses with markers of both kinds
\* ------------------------------------------------------------------------
WordPositions(s, word) ==
    {p \in 1..Len(s) :
        /\ StandsAt(s, p, word)
        /\ p = 1 \/ ~IsWordChar(CharAt(s, p - 1))
        /\ p + Len(word) > Len(s) \/ ~IsWordChar(CharAt(s, p + Len(word)))}

\* some position of first stands before every position of second
FirstBefore(first, second) == \E p \in first : \A q \in second : p < q

\* C40: when a response has a marker line of each kind, the verdict is that
\* of the marker line that comes first; when it has no marker line and both
\* standalone words, the verdict is that of the word that comes first
C40_FirstMarkerDecides ==
    parsed # None =>
        LET text == TrimText(response)
            passLines == MarkerMatches(text, "PASS:")
            failLines == MarkerMatches(text, "FAIL:")
            passWords == WordPositions(text, "pass")
            failWords == WordPositions(text, "fail")
        IN /\ (passLines # {} /\ failLines # {}) =>
                 (parsed[1].value.pass <=> FirstBefore(passLines, failLines))
           /\ (passLines = {} /\ failLines = {} /\ passWords # {} /\ failWords # {}) =>
                 (parsed[1].value.pass <=> FirstBefore(passWords, failWords))

====
